---- MODULE Spec2Model ----
(***************************************************************************)
(* Model of the trade-simulation loop (backtest/backtester.py) and of the  *)
(* RiskManager policy object (risk/risk_manager.py).                       *)
(*                                                                         *)
(* Numbers.  Python floats are modelled as exact rationals [t, n, d] with  *)
(* d > 0 in lowest terms, plus the IEEE value NaN (t = "nan"), which the   *)
(* rolling ATR mean yields on its first ATR_PERIOD - 1 rows, and Python's  *)
(* None (t = "none").  Arithmetic propagates NaN and every ordered         *)
(* comparison with NaN is false, as in Python.                             *)
(*                                                                         *)
(* Block structure of backtester.py lines 134-192.  The dict literal       *)
(* "position = {" on lines 142 and 171 is written one level to the left of *)
(* the statements around it.  The model follows the only block structure   *)
(* under which the "elif" on line 164 belongs to the "if" on line 134:     *)
(* lines 142-163 are the body of that "if", lines 171-192 the body of the  *)
(* "elif".                                                                 *)
(***************************************************************************)
EXTENDS Integers, Sequences, FiniteSets, TLC

VARIABLES
    \* ---- Backtester object (backtester.py 14-25)
    self,               \* lot_size, commission, spread, risk_per_trade, pip_value, max_drawdown
    trades,             \* self.trades
    equity_curve,       \* self.equity_curve
    \* ---- the signals frame handed to _simulate_trading
    has_signal_col,     \* TRUE iff the frame has a lower-case 'signal' column
    \* ---- locals of _simulate_trading (backtester.py 53-60)
    balance, equity, position, trailing_stop, max_equity, drawdown_triggered,
    i,                  \* index of the row being processed (number of rows processed so far)
    row,                \* the row processed last: close, atr, Signal
    pc,                 \* "loop" | "done" | "raised" | "evaluated"
    performance,        \* result of _calculate_performance
    \* ---- RiskManager object (risk_manager.py 22-36)
    rm,                 \* the limits given to __init__
    account_balance, open_positions, trade_history, session_start_balance,
    consecutive_losses, circuit_breaker_triggered,
    \* ---- the caller of the RiskManager
    call,               \* the call made last, when it was remove_position,
                        \* update_trailing_stops or check_stop_loss_take_profit:
                        \* its arguments, what it returned, the callbacks it made
    \* ---- EnhancedTrader object (enhanced_trader.py 72-75)
    is_trading,         \* self.is_trading
    api,                \* the control called last on the trader: "none" | "pause" | "resume"
    \* ---- module globals of data/fetch_mt5.py (config.py 9-10)
    MT5_CONNECTION_ACTIVE, MT5_CONNECTION_LOCK,
    conn_pc             \* place of each thread in ensure_mt5_connection

btVars == <<self, trades, equity_curve, has_signal_col, balance, equity, position,
            trailing_stop, max_equity, drawdown_triggered, i, row, pc, performance>>

rmVars == <<rm, account_balance, open_positions, trade_history, session_start_balance,
            consecutive_losses, circuit_breaker_triggered, call>>

liveVars == <<is_trading, api, MT5_CONNECTION_ACTIVE, MT5_CONNECTION_LOCK, conn_pc>>

vars == <<btVars, rmVars, liveVars>>

----------------------------------------------------------------------------
(* Bounds of the model *)

\* rows of the signals frame processed by one run
MaxBars == 3

\* positions held in RiskManager.open_positions at once
MaxOpen == 2

\* results recorded in RiskManager.trade_history
MaxHistory == 3

----------------------------------------------------------------------------
(* Floats *)

None == [t |-> "none", n |-> 0, d |-> 1]
NaN == [t |-> "nan", n |-> 0, d |-> 1]

Abs(x) == IF x < 0 THEN -x ELSE x

RECURSIVE GCD(_, _)
GCD(a, b) == IF b = 0 THEN a ELSE GCD(b, a % b)

\* the rational n/d (d # 0) in lowest terms with a positive denominator
Q(n, d) ==
    LET g == GCD(Abs(n), Abs(d))
        s == IF d < 0 THEN -1 ELSE 1
    IN  [t |-> "num", n |-> (s * n) \div g, d |-> (s * d) \div g]

F(k) == [t |-> "num", n |-> k, d |-> 1]

IsNaN(a) == a.t = "nan"

\* products and sums cancel common factors first, so that intermediate
\* values stay as small as the results
FMul(a, b) ==
    IF IsNaN(a) \/ IsNaN(b) THEN NaN
    ELSE LET g1 == GCD(Abs(a.n), b.d)
             g2 == GCD(Abs(b.n), a.d)
         IN  Q((a.n \div g1) * (b.n \div g2), (a.d \div g2) * (b.d \div g1))
\* used only under the guards of the code (divisor # 0)
FDiv(a, b) == IF IsNaN(a) \/ IsNaN(b) THEN NaN ELSE FMul(a, Q(b.d, b.n))
FAdd(a, b) ==
    IF IsNaN(a) \/ IsNaN(b) THEN NaN
    ELSE LET g == GCD(a.d, b.d)
         IN  Q(a.n * (b.d \div g) + b.n * (a.d \div g), (a.d \div g) * b.d)
FNeg(a) == IF IsNaN(a) THEN NaN ELSE [a EXCEPT !.n = -a.n]
FSub(a, b) == FAdd(a, FNeg(b))
FAbs(a) == IF IsNaN(a) THEN NaN ELSE [a EXCEPT !.n = Abs(a.n)]

FLt(a, b) ==
    /\ ~IsNaN(a) /\ ~IsNaN(b)
    /\ LET g == GCD(a.d, b.d) IN a.n * (b.d \div g) < b.n * (a.d \div g)
FLe(a, b) ==
    /\ ~IsNaN(a) /\ ~IsNaN(b)
    /\ LET g == GCD(a.d, b.d) IN a.n * (b.d \div g) <= b.n * (a.d \div g)
FGt(a, b) == FLt(b, a)
FGe(a, b) == FLe(b, a)

----------------------------------------------------------------------------
(* Program constants *)

\* config.py: ATR_MULTIPLIER = 2.0, the trailing-stop distance in ATRs
ATR_MULTIPLIER == 2
\* config.py: ATR_STOP_LOSS_MULTIPLIER = 2.0
ATR_STOP_LOSS_MULTIPLIER == 2
\* config.py: ATR_TAKE_PROFIT_MULTIPLIER = 4.0
ATR_TAKE_PROFIT_MULTIPLIER == 4
\* config.py: ATR_PERIOD = 14, the window of the rolling mean of calculate_atr
ATR_PERIOD == 14
\* backtester.py 53 and 243: the starting balance
StartingBalance == 10000
\* backtester.py 211-216: units of the underlying per lot
ContractSize == 100000
\* backtester.py 136-137, 166-167: entry_price * 0.97 and entry_price * 1.03
PctBelow == Q(97, 100)
PctAbove == Q(103, 100)

----------------------------------------------------------------------------
(* Inputs *)

\* close prices of the bars
Prices == {F(97), F(100), F(103)}

\* What the ATR lookup of lines 63-71 yields for a row: NaN inside the first
\* rolling window of calculate_atr, the rolling mean of the true range after
\* it, None for a row whose label is not in the ATR series.  Rows without an
\* ATR close at 100, which keeps the percentage stop distance 0.03 * entry a
\* whole number.  An ATR of 0 is the mean true range of a window of bars
\* whose high, low and previous close coincide.
Rows ==
    {[close |-> p, atr |-> a] : p \in Prices, a \in {NaN, Q(3, 2)}}
        \cup {[close |-> F(100), atr |-> None], [close |-> F(100), atr |-> F(0)]}

\* the bars of a frame trading around 2000 with an ATR of 5
ScenarioRows == {[close |-> p, atr |-> F(5)] : p \in {F(2000), F(2010), F(1999)}}

\* the bars of a frame that stays at 100 with an ATR of 3/2
FlatRows == {[close |-> F(100), atr |-> Q(3, 2)]}

\* values of the 'Signal' column; the 'signal' column, when the frame has
\* one, carries the same value
Signals == {-1, 0, 1}

\* what a 'Signal' cell can hold: the three signals and a value outside them
AnySignals == Signals \cup {2}

\* Backtester(strategy_class, data, lot_size, commission, spread,
\*            risk_per_trade, pip_value, max_drawdown)
Configs ==
    { [lot_size |-> Q(1, 1000), commission |-> F(1), spread |-> F(0),
       risk_per_trade |-> Q(3, 100), pip_value |-> F(10000),
       max_drawdown |-> Q(5, 100)] }

----------------------------------------------------------------------------
(* Backtester._simulate_trading, one iteration of the loop over the rows *)

\* lines 73-74
UpdateMaxEquity(mx, eq) == IF FGt(eq, mx) THEN eq ELSE mx

\* line 75
CurrentDrawdown(mx, eq) == IF FGt(mx, F(0)) THEN FDiv(FSub(mx, eq), mx) ELSE F(0)

\* lines 76-77
\* C3 mutant: the flag follows the current drawdown instead of latching
DrawdownCheckNotSticky(flag, dd, limit) == FGt(dd, limit)

DrawdownCheck(flag, dd, limit) == IF FGt(dd, limit) /\ ~flag THEN TRUE ELSE flag

\* lines 110-113: the balance after the close check of a bar
\* C6 mutant: the pnl of a close is not credited to the balance
NewBalanceUncredited(bal, closing, pnl) == bal

NewBalance(bal, closing, pnl) == IF closing THEN FAdd(bal, pnl) ELSE bal

\* lines 133-134 and 164: the direction of the position to open, NoEntry for none
NoEntry == "None"
\* C1 mutant: the entry does not test that no position is open
EntryDirectionIgnoringPosition(flag, pos, sig) ==
    IF ~flag
    THEN IF sig = 1 THEN "long"
         ELSE IF sig = -1 THEN "short"
         ELSE NoEntry
    ELSE NoEntry

EntryDirection(flag, pos, sig) ==
    IF ~flag
    THEN IF pos = None /\ sig = 1 THEN "long"
         ELSE IF pos = None /\ sig = -1 THEN "short"
         ELSE NoEntry
    ELSE NoEntry

\* lines 82-89: the trailing stop after the update on a bar with a position open
\* C5 mutant: every candidate is accepted, tighter or not
UpdateTrailingAcceptingAll(pos, ts, price, atr) ==
    LET new_trailing == IF atr # None
                        THEN IF pos.direction = "long"
                             THEN FSub(price, FMul(F(ATR_MULTIPLIER), atr))
                             ELSE FAdd(price, FMul(F(ATR_MULTIPLIER), atr))
                        ELSE None
    IN  IF new_trailing # None THEN new_trailing ELSE ts

\* C23 mutant: the trailing stop stays where the entry put it
UpdateTrailingFrozen(pos, ts, price, atr) == ts

UpdateTrailing(pos, ts, price, atr) ==
    IF pos.direction = "long"
    THEN LET new_trailing == IF atr # None THEN FSub(price, FMul(F(ATR_MULTIPLIER), atr)) ELSE None
         IN  IF new_trailing # None /\ (ts = None \/ FGt(new_trailing, ts))
             THEN new_trailing ELSE ts
    ELSE LET new_trailing == IF atr # None THEN FAdd(price, FMul(F(ATR_MULTIPLIER), atr)) ELSE None
         IN  IF new_trailing # None /\ (ts = None \/ FLt(new_trailing, ts))
             THEN new_trailing ELSE ts

\* row['signal'] on lines 99 and 108: a KeyError when the frame has no such column
NoReason == "None"
KeyError == "KeyError"

\* C7 mutant: the fixed stop is tested before the trailing stop
CloseReasonStopFirst(pos, ts, price, sig, has_col) ==
    IF pos.direction = "long"
    THEN IF FLe(price, pos.stop_loss) THEN "stop_loss"
         ELSE IF ts # None /\ FLe(price, ts) THEN "trailing_stop"
         ELSE IF FGe(price, pos.take_profit) THEN "take_profit"
         ELSE IF ~has_col THEN KeyError
         ELSE IF sig = -1 THEN "opposite_signal"
         ELSE NoReason
    ELSE IF FGe(price, pos.stop_loss) THEN "stop_loss"
         ELSE IF ts # None /\ FGe(price, ts) THEN "trailing_stop"
         ELSE IF FLe(price, pos.take_profit) THEN "take_profit"
         ELSE IF ~has_col THEN KeyError
         ELSE IF sig = 1 THEN "opposite_signal"
         ELSE NoReason

\* lines 91-109
CloseReason(pos, ts, price, sig, has_col) ==
    IF pos.direction = "long"
    THEN IF ts # None /\ FLe(price, ts) THEN "trailing_stop"
         ELSE IF FLe(price, pos.stop_loss) THEN "stop_loss"
         ELSE IF FGe(price, pos.take_profit) THEN "take_profit"
         ELSE IF ~has_col THEN KeyError
         ELSE IF sig = -1 THEN "opposite_signal"
         ELSE NoReason
    ELSE IF ts # None /\ FGe(price, ts) THEN "trailing_stop"
         ELSE IF FGe(price, pos.stop_loss) THEN "stop_loss"
         ELSE IF FLe(price, pos.take_profit) THEN "take_profit"
         ELSE IF ~has_col THEN KeyError
         ELSE IF sig = 1 THEN "opposite_signal"
         ELSE NoReason

\* C21 mutant: the commission of line 216 is not charged
CalculatePnlGross(pos, price, commission) ==
    IF pos.direction = "long"
    THEN FMul(FMul(FSub(price, pos.entry_price), pos.lot_size), F(ContractSize))
    ELSE FMul(FMul(FSub(pos.entry_price, price), pos.lot_size), F(ContractSize))

\* Backtester._calculate_pnl, lines 208-218
CalculatePnl(pos, price, commission) ==
    LET gross == IF pos.direction = "long"
                 THEN FMul(FMul(FSub(price, pos.entry_price), pos.lot_size), F(ContractSize))
                 ELSE FMul(FMul(FSub(pos.entry_price, price), pos.lot_size), F(ContractSize))
    IN  FSub(gross, FMul(FMul(commission, pos.lot_size), F(ContractSize)))

\* lines 114-128: the record appended when a position is closed
\* C35 mutant: the record is stamped with the bar of the entry
ClosedTradeStampedAtEntry(pos, ts, price, t, pnl, bal, reason) ==
    [entry_time |-> pos.entry_time, exit_time |-> pos.entry_time, symbol |-> pos.symbol,
     direction |-> pos.direction, entry_price |-> pos.entry_price,
     exit_price |-> price, lot_size |-> pos.lot_size, stop_loss |-> pos.stop_loss,
     take_profit |-> pos.take_profit, trailing_stop |-> ts, pnl |-> pnl,
     balance |-> bal, exit_reason |-> reason]

\* C33 mutant: the record carries the trailing stop as the stop of the position
ClosedTradeWithMovedStop(pos, ts, price, t, pnl, bal, reason) ==
    [entry_time |-> pos.entry_time, exit_time |-> t, symbol |-> pos.symbol,
     direction |-> pos.direction, entry_price |-> pos.entry_price,
     exit_price |-> price, lot_size |-> pos.lot_size,
     stop_loss |-> IF ts # None THEN ts ELSE pos.stop_loss,
     take_profit |-> pos.take_profit, trailing_stop |-> ts, pnl |-> pnl,
     balance |-> bal, exit_reason |-> reason]

ClosedTrade(pos, ts, price, t, pnl, bal, reason) ==
    [entry_time |-> pos.entry_time, exit_time |-> t, symbol |-> pos.symbol,
     direction |-> pos.direction, entry_price |-> pos.entry_price,
     exit_price |-> price, lot_size |-> pos.lot_size, stop_loss |-> pos.stop_loss,
     take_profit |-> pos.take_profit, trailing_stop |-> ts, pnl |-> pnl,
     balance |-> bal, exit_reason |-> reason]

\* C19 mutant: without a usable stop distance the position gets no size
LotSizeWithoutFallback(stop_dist, bal, cfg) ==
    IF FGt(stop_dist, F(0))
    THEN FDiv(FMul(cfg.risk_per_trade, bal), FMul(stop_dist, cfg.pip_value))
    ELSE F(0)

\* C20 mutant: the risk is taken of the starting balance
LotSizeFromStartingBalance(stop_dist, bal, cfg) ==
    IF FGt(stop_dist, F(0))
    THEN FDiv(FMul(cfg.risk_per_trade, F(StartingBalance)),
              FMul(stop_dist, cfg.pip_value))
    ELSE cfg.lot_size

\* lines 140 and 169: the dynamic position size, or the configured lot size
\* when the stop distance is not above zero
LotSize(stop_dist, bal, cfg) ==
    IF FGt(stop_dist, F(0))
    THEN FDiv(FMul(cfg.risk_per_trade, bal), FMul(stop_dist, cfg.pip_value))
    ELSE cfg.lot_size

\* lines 135-150 (long) and 165-179 (short): the position opened on a signal,
\* together with the trailing stop set on line 141 / 170
OpenPosition(dir, price, atr, bal, t, cfg) ==
    LET long == dir = "long"
        entry_price == IF long THEN FAdd(price, cfg.spread) ELSE FSub(price, cfg.spread)
        sl == IF atr # None
              THEN IF long THEN FSub(entry_price, FMul(F(ATR_STOP_LOSS_MULTIPLIER), atr))
                           ELSE FAdd(entry_price, FMul(F(ATR_STOP_LOSS_MULTIPLIER), atr))
              ELSE IF long THEN FMul(entry_price, PctBelow) ELSE FMul(entry_price, PctAbove)
        tp == IF atr # None
              THEN IF long THEN FAdd(entry_price, FMul(F(ATR_TAKE_PROFIT_MULTIPLIER), atr))
                           ELSE FSub(entry_price, FMul(F(ATR_TAKE_PROFIT_MULTIPLIER), atr))
              ELSE IF long THEN FMul(entry_price, PctAbove) ELSE FMul(entry_price, PctBelow)
        stop_dist == FAbs(FSub(entry_price, sl))
        lot_size == LotSize(stop_dist, bal, cfg)
        ts == IF atr # None
              THEN IF long THEN FSub(entry_price, FMul(F(ATR_MULTIPLIER), atr))
                           ELSE FAdd(entry_price, FMul(F(ATR_MULTIPLIER), atr))
              ELSE None
    IN  [position |-> [entry_time |-> t, entry_price |-> entry_price, direction |-> dir,
                       lot_size |-> lot_size, symbol |-> "symbol",
                       stop_loss |-> sl, take_profit |-> tp],
         trailing_stop |-> ts]

\* lines 152-163 and 181-192: the record appended when a position is opened
EntryLog(pos, ts) ==
    [entry_time |-> pos.entry_time, symbol |-> "symbol", direction |-> pos.direction,
     entry_price |-> pos.entry_price, lot_size |-> pos.lot_size,
     stop_loss |-> pos.stop_loss, take_profit |-> pos.take_profit,
     trailing_stop |-> ts,
     entry_reason |-> IF pos.direction = "long" THEN "Buy signal: MA crossover + filters"
                                                ELSE "Sell signal: MA crossover + filters",
     status |-> "open"]

\* C22 mutant: the point carries the balance as its equity
EquityPointRealizedOnly(t, bal, eq, pos) ==
    [time |-> t, balance |-> bal, equity |-> bal, position |-> pos # None]

\* lines 194-202
EquityPoint(t, bal, eq, pos) ==
    [time |-> t, balance |-> bal, equity |-> eq, position |-> pos # None]

\* the body of the for loop, lines 61-202, on the row (close, atr, sig)
Bar(close, atr, sig) ==
    /\ pc = "loop"
    /\ i < MaxBars
    /\ LET mx == UpdateMaxEquity(max_equity, equity)
           dt == DrawdownCheck(drawdown_triggered, CurrentDrawdown(mx, equity), self.max_drawdown)
           ts1 == IF position # None THEN UpdateTrailing(position, trailing_stop, close, atr)
                                     ELSE trailing_stop
           cr == IF position # None THEN CloseReason(position, ts1, close, sig, has_signal_col)
                                    ELSE NoReason
       IN  /\ row' = [close |-> close, atr |-> atr, Signal |-> sig]
           /\ max_equity' = mx
           /\ drawdown_triggered' = dt
           /\ IF cr = KeyError
              THEN \* line 99 / 108 raises: the run ends inside this iteration
                   /\ pc' = "raised"
                   /\ trailing_stop' = ts1
                   /\ UNCHANGED <<balance, equity, position, trades, equity_curve, i>>
              ELSE LET closing == cr # NoReason
                       pnl == CalculatePnl(position, close, self.commission)
                       bal == NewBalance(balance, closing, pnl)
                       eq1 == IF closing THEN bal ELSE equity
                       tr1 == IF closing
                              THEN Append(trades, ClosedTrade(position, ts1, close, i, pnl, bal, cr))
                              ELSE trades
                       pos1 == IF closing THEN None ELSE position
                       ts2 == IF closing THEN None ELSE ts1
                       dir == EntryDirection(dt, pos1, sig)
                       opening == dir # NoEntry
                       op == OpenPosition(dir, close, atr, bal, i, self)
                       pos2 == IF opening THEN op.position ELSE pos1
                       ts3 == IF opening THEN op.trailing_stop ELSE ts2
                       tr2 == IF opening THEN Append(tr1, EntryLog(op.position, op.trailing_stop))
                                         ELSE tr1
                       eq2 == IF pos2 # None
                              THEN FAdd(bal, CalculatePnl(pos2, close, self.commission))
                              ELSE eq1
                   IN  /\ balance' = bal
                       /\ equity' = eq2
                       /\ position' = pos2
                       /\ trailing_stop' = ts3
                       /\ trades' = tr2
                       /\ equity_curve' = Append(equity_curve, EquityPoint(i, bal, eq2, pos2))
                       /\ i' = i + 1
                       /\ pc' = "loop"
    /\ UNCHANGED <<self, has_signal_col, performance>>
    /\ UNCHANGED <<rmVars, liveVars>>

\* the frame has no more rows: _simulate_trading returns (line 202)
LoopEnd ==
    /\ pc = "loop"
    /\ pc' = "done"
    /\ UNCHANGED <<self, trades, equity_curve, has_signal_col, balance, equity, position,
                   trailing_stop, max_equity, drawdown_triggered, i, row, performance>>
    /\ UNCHANGED <<rmVars, liveVars>>

\* A second call of run() on the same Backtester: lines 53-59 start the
\* locals afresh, while self.trades and self.equity_curve, assigned only in
\* __init__ (lines 20, 22), keep the records of the earlier run.  Taken once
\* the first run is over, when the curve holds the points of that run alone.
SimulateTradingAgain ==
    /\ pc \in {"done", "evaluated"}
    /\ Len(equity_curve) = i
    /\ balance' = F(StartingBalance)
    /\ equity' = F(StartingBalance)
    /\ position' = None
    /\ trailing_stop' = None
    /\ max_equity' = F(StartingBalance)
    /\ drawdown_triggered' = FALSE
    /\ i' = 0
    /\ row' = None
    /\ pc' = "loop"
    /\ performance' = None
    /\ UNCHANGED <<self, trades, equity_curve, has_signal_col>>
    /\ UNCHANGED <<rmVars, liveVars>>

----------------------------------------------------------------------------
(* Backtester._calculate_performance, lines 220-276 *)

RECURSIVE SumPnl(_)
SumPnl(ts) == IF ts = <<>> THEN F(0) ELSE FAdd(ts[1].pnl, SumPnl(Tail(ts)))

Mean(ts) == FDiv(SumPnl(ts), F(Len(ts)))

\* lines 248-256; meaningful only for a non-empty curve
RECURSIVE MaxDrawdownFrom(_, _, _, _)
MaxDrawdownFrom(ec, k, peak, maxdd) ==
    IF k > Len(ec) THEN maxdd
    ELSE LET e == ec[k].equity
             pk == IF FGt(e, peak) THEN e ELSE peak
             dd == FDiv(FSub(pk, e), pk)
         IN  MaxDrawdownFrom(ec, k + 1, pk, IF FGt(dd, maxdd) THEN dd ELSE maxdd)

\* lines 259-260: 0 unless the standard deviation of the period returns is
\* positive; a positive deviation needs two returns that differ
SharpeRatio(ec) ==
    LET ret(k) == FSub(FDiv(ec[k + 1].equity, ec[k].equity), F(1))
        differ == \E a, b \in 1..(Len(ec) - 1) : ret(a) # ret(b)
    IN  IF Len(ec) >= 3 /\ differ THEN [t |-> "mean_over_std", n |-> 0, d |-> 1] ELSE F(0)

Performance(tr, ec) ==
    IF tr = <<>>
    THEN \* lines 222-231
         [total_return |-> F(0), num_trades |-> 0, win_rate |-> F(0), avg_win |-> F(0),
          avg_loss |-> F(0), max_drawdown |-> F(0), sharpe_ratio |-> F(0)]
    ELSE IF \E k \in 1..Len(tr) : "pnl" \notin DOMAIN tr[k]
    THEN \* t['pnl'] on line 235 (and 236) on a record that has no such key
         [raised |-> KeyError]
    ELSE LET total_trades == Len(tr)
             winning_trades == SelectSeq(tr, LAMBDA t : FGt(t.pnl, F(0)))
             losing_trades == SelectSeq(tr, LAMBDA t : FLe(t.pnl, F(0)))
             final_balance == tr[Len(tr)].balance
         IN  [total_return |-> FDiv(FSub(final_balance, F(StartingBalance)), F(StartingBalance)),
              num_trades |-> total_trades,
              win_rate |-> Q(Len(winning_trades), total_trades),
              avg_win |-> IF winning_trades # <<>> THEN Mean(winning_trades) ELSE F(0),
              avg_loss |-> IF losing_trades # <<>> THEN Mean(losing_trades) ELSE F(0),
              max_drawdown |-> MaxDrawdownFrom(ec, 1, ec[1].equity, F(0)),
              sharpe_ratio |-> SharpeRatio(ec),
              final_balance |-> final_balance,
              trades |-> tr,
              equity_curve |-> ec]

\* run(), line 41: the evaluation that follows the simulation
CalculatePerformance ==
    /\ pc = "done"
    /\ performance' = Performance(trades, equity_curve)
    /\ pc' = "evaluated"
    /\ UNCHANGED <<self, trades, equity_curve, has_signal_col, balance, equity, position,
                   trailing_stop, max_equity, drawdown_triggered, i, row>>
    /\ UNCHANGED <<rmVars, liveVars>>

----------------------------------------------------------------------------
(* RiskManager *)

Symbols == {"XAUUSD", "EURUSD"}

\* RiskManager(account_balance, ..., max_portfolio_risk, max_positions,
\*             max_drawdown_per_symbol, max_drawdown_per_session,
\*             circuit_breaker_losses)
RiskConfigs ==
    { [max_portfolio_risk |-> Q(6, 100), max_positions |-> 2,
       max_drawdown_per_symbol |-> Q(5, 100), max_drawdown_per_session |-> Q(10, 100),
       circuit_breaker_losses |-> 2,
       stop_loss_pct |-> Q(30, 100), take_profit_pct |-> Q(60, 100),
       sltp_mode |-> "atr"] }

\* config.py lines 111-112: SLTP_MODE, "Options: 'fixed', 'atr'"
SltpModes == {"fixed", "atr"}

\* the same manager under each documented SLTP_MODE
LevelConfigs == {[c EXCEPT !.sltp_mode = m] : c \in RiskConfigs, m \in SltpModes}

\* balances reported to update_account_balance
Balances == {F(8900), F(9000)}

\* the positions the caller opens: symbol, direction
Opened == {<<"XAUUSD", "buy">>, <<"XAUUSD", "sell">>, <<"EURUSD", "buy">>}

\* prices reported to update_position_pnl
MarkPrices == {F(105), F(106)}

\* the positions handed to add_position: entry price 100, 0.001 lots, stop
\* and target two and four ATRs (of 1.5) away, no trailing stop
NewPosition(symbol, direction) ==
    [symbol |-> symbol, direction |-> direction, entry_price |-> F(100),
     lot_size |-> Q(1, 1000),
     stop_loss |-> IF direction = "buy" THEN F(97) ELSE F(103),
     take_profit |-> IF direction = "buy" THEN F(106) ELSE F(94),
     trailing_stop |-> None,
     unrealized_pnl |-> F(0), pnl |-> F(0)]

\* any call that is not recorded
NoCall == [op |-> "None"]

\* check_circuit_breaker, lines 45-51: the value returned
CheckCircuitBreaker(losses, cfg) == ~(losses >= cfg.circuit_breaker_losses)

\* check_circuit_breaker, lines 47-48: the flag after the check
\* C12 mutant: the flag follows the count instead of latching
BreakerFlagFollowsCount(flag, losses, cfg) == losses >= cfg.circuit_breaker_losses

BreakerFlagAfterCheck(flag, losses, cfg) ==
    IF losses >= cfg.circuit_breaker_losses THEN TRUE ELSE flag

RECURSIVE SumUnrealized(_)
SumUnrealized(ps) ==
    IF ps = <<>> THEN F(0) ELSE FAdd(ps[1].unrealized_pnl, SumUnrealized(Tail(ps)))

\* check_drawdown_limits, lines 53-70
CheckDrawdownLimits(symbol, ps, bal, start, cfg) ==
    LET session_drawdown == FDiv(FSub(start, bal), start)
        symbol_positions == SelectSeq(ps, LAMBDA pos : pos.symbol = symbol)
        symbol_drawdown == FDiv(FAbs(SumUnrealized(symbol_positions)), bal)
    IN  IF FGt(session_drawdown, cfg.max_drawdown_per_session) THEN FALSE
        ELSE IF symbol_positions # <<>> /\ FGt(symbol_drawdown, cfg.max_drawdown_per_symbol)
        THEN FALSE
        ELSE TRUE

\* calculate_portfolio_risk, lines 193-205
RECURSIVE CalculatePortfolioRisk(_, _)
CalculatePortfolioRisk(ps, bal) ==
    IF ps = <<>> THEN F(0)
    ELSE FAdd(FDiv(FAbs(ps[1].unrealized_pnl), bal), CalculatePortfolioRisk(Tail(ps), bal))

\* C36 mutant: the gate does not count the open positions
CanOpenWithoutPositionLimit(symbol, ps, bal, start, losses, cfg) ==
    IF ~CheckCircuitBreaker(losses, cfg) THEN FALSE
    ELSE IF ~CheckDrawdownLimits(symbol, ps, bal, start, cfg) THEN FALSE
    ELSE IF FGe(CalculatePortfolioRisk(ps, bal), cfg.max_portfolio_risk) THEN FALSE
    ELSE TRUE

\* can_open_position, lines 166-191: the value returned
CanOpen(symbol, ps, bal, start, losses, cfg) ==
    IF ~CheckCircuitBreaker(losses, cfg) THEN FALSE
    ELSE IF ~CheckDrawdownLimits(symbol, ps, bal, start, cfg) THEN FALSE
    ELSE IF Len(ps) >= cfg.max_positions THEN FALSE
    ELSE IF FGe(CalculatePortfolioRisk(ps, bal), cfg.max_portfolio_risk) THEN FALSE
    ELSE TRUE

\* The value can_open_position(symbol) returns when called in the current state
Returns(symbol) ==
    CanOpen(symbol, open_positions, account_balance, session_start_balance,
            consecutive_losses, rm)

\* can_open_position(symbol): returns Returns(symbol); its one effect is the
\* flag set by check_circuit_breaker, which does not depend on the symbol
CanOpenPosition ==
    /\ circuit_breaker_triggered' =
           BreakerFlagAfterCheck(circuit_breaker_triggered, consecutive_losses, rm)
    /\ UNCHANGED <<rm, account_balance, open_positions, trade_history,
                   session_start_balance, consecutive_losses>>
    /\ call' = NoCall
    /\ UNCHANGED <<btVars, liveVars>>

\* reset_session(), lines 38-43
ResetSession ==
    /\ session_start_balance' = account_balance
    /\ consecutive_losses' = 0
    /\ circuit_breaker_triggered' = FALSE
    /\ UNCHANGED <<rm, account_balance, open_positions, trade_history>>
    /\ call' = NoCall
    /\ UNCHANGED <<btVars, liveVars>>

\* record_trade_result, lines 81-84: the counter after the call
\* C11 mutant: a win leaves the count where it was
LossesAfterKeepingOnWin(losses, win_loss) == IF win_loss = "loss" THEN losses + 1 ELSE losses

LossesAfter(losses, win_loss) == IF win_loss = "loss" THEN losses + 1 ELSE 0

\* C13 mutant: the breaker is tripped eagerly, when the loss is recorded
RecordTradeResultTripping(symbol, pnl, win_loss) ==
    /\ Len(trade_history) < MaxHistory
    /\ trade_history' = Append(trade_history,
                               [symbol |-> symbol, pnl |-> pnl, win_loss |-> win_loss])
    /\ consecutive_losses' = LossesAfter(consecutive_losses, win_loss)
    /\ circuit_breaker_triggered' =
           BreakerFlagAfterCheck(circuit_breaker_triggered, consecutive_losses', rm)
    /\ UNCHANGED <<rm, account_balance, open_positions, session_start_balance>>
    /\ call' = NoCall
    /\ UNCHANGED <<btVars, liveVars>>

\* record_trade_result(symbol, pnl, win_loss), lines 72-86
RecordTradeResult(symbol, pnl, win_loss) ==
    /\ Len(trade_history) < MaxHistory
    /\ trade_history' = Append(trade_history,
                               [symbol |-> symbol, pnl |-> pnl, win_loss |-> win_loss])
    /\ consecutive_losses' = LossesAfter(consecutive_losses, win_loss)
    /\ UNCHANGED <<rm, account_balance, open_positions, session_start_balance,
                   circuit_breaker_triggered>>
    /\ call' = NoCall
    /\ UNCHANGED <<btVars, liveVars>>

\* add_position(symbol, direction, ...), lines 207-222
AddPosition(symbol, direction) ==
    /\ Len(open_positions) < MaxOpen
    /\ open_positions' = Append(open_positions, NewPosition(symbol, direction))
    /\ UNCHANGED <<rm, account_balance, trade_history, session_start_balance,
                   consecutive_losses, circuit_breaker_triggered>>
    /\ call' = NoCall
    /\ UNCHANGED <<btVars, liveVars>>

NoDirection == "None"

\* C15 mutant: the direction given is not looked at
RemovedIgnoringDirection(ps, symbol, direction) ==
    SelectSeq(ps, LAMBDA pos : pos.symbol # symbol)

\* remove_position, lines 263-266: the collection after the call
Removed(ps, symbol, direction) ==
    IF direction # NoDirection
    THEN SelectSeq(ps, LAMBDA pos : ~(pos.symbol = symbol /\ pos.direction = direction))
    ELSE SelectSeq(ps, LAMBDA pos : pos.symbol # symbol)

\* remove_position(symbol, direction=None), lines 260-268
RemovePosition(symbol, direction) ==
    /\ open_positions' = Removed(open_positions, symbol, direction)
    /\ UNCHANGED <<rm, account_balance, trade_history, session_start_balance,
                   consecutive_losses, circuit_breaker_triggered>>
    /\ call' = [op |-> "remove_position", symbol |-> symbol, direction |-> direction]
    /\ UNCHANGED <<btVars, liveVars>>

\* update_position_pnl, lines 272-281: only the first position of the symbol
\* is marked (the loop breaks after it)
RECURSIVE Marked(_, _, _)
Marked(ps, symbol, price) ==
    IF ps = <<>> THEN <<>>
    ELSE IF ps[1].symbol = symbol
    THEN LET pnl == IF ps[1].direction = "buy"
                    THEN FMul(FMul(FSub(price, ps[1].entry_price), ps[1].lot_size),
                              F(ContractSize))
                    ELSE FMul(FMul(FSub(ps[1].entry_price, price), ps[1].lot_size),
                              F(ContractSize))
         IN  <<[ps[1] EXCEPT !.unrealized_pnl = pnl, !.pnl = pnl]>> \o Tail(ps)
    ELSE <<ps[1]>> \o Marked(Tail(ps), symbol, price)

\* update_position_pnl(symbol, current_price), lines 270-281
UpdatePositionPnl(symbol, price) ==
    /\ open_positions' = Marked(open_positions, symbol, price)
    /\ UNCHANGED <<rm, account_balance, trade_history, session_start_balance,
                   consecutive_losses, circuit_breaker_triggered>>
    /\ call' = NoCall
    /\ UNCHANGED <<btVars, liveVars>>

\* What get_latest_data(symbol) hands back: None, or a frame of len rows whose
\* last close is close and whose true range averages mean_true_range
LatestData ==
    {None}
        \cup {[len |-> 1, close |-> F(105), mean_true_range |-> Q(3, 2)],
              [len |-> 2, close |-> F(106), mean_true_range |-> Q(3, 2)]}
        \cup {[len |-> ATR_PERIOD, close |-> p, mean_true_range |-> Q(3, 2)] :
                  p \in {F(95), F(105), F(106)}}

\* utils/indicators.py calculate_atr, lines 43-46, then .iloc[-1] (lines
\* 237-241): the rolling mean is NaN until the frame has ATR_PERIOD rows
LastAtr(data) == IF data.len < ATR_PERIOD THEN NaN ELSE data.mean_true_range

\* lines 244 and 252
NewTrailingStop(direction, price, atr_val) ==
    IF direction = "buy" THEN FSub(price, FMul(F(ATR_MULTIPLIER), atr_val))
                         ELSE FAdd(price, FMul(F(ATR_MULTIPLIER), atr_val))

\* C14 mutant: the candidate is taken whenever it differs from the stop
MovesStopWheneverDifferent(direction, new_trailing_stop, stop_loss) ==
    new_trailing_stop # stop_loss

\* lines 246 and 254
MovesStop(direction, new_trailing_stop, stop_loss) ==
    IF direction = "buy" THEN FGt(new_trailing_stop, stop_loss)
                         ELSE FLt(new_trailing_stop, stop_loss)

\* the loop of lines 230-258 over the positions ps: the positions after it
\* and the calls update_broker_sl(symbol, new_sl) it made, in order
RECURSIVE TrailStops(_, _)
TrailStops(ps, get_latest_data) ==
    IF ps = <<>> THEN [positions |-> <<>>, broker |-> <<>>]
    ELSE LET pos == ps[1]
             data == get_latest_data[pos.symbol]
             rest == TrailStops(Tail(ps), get_latest_data)
             skipped == [positions |-> <<pos>> \o rest.positions,
                         broker |-> rest.broker]
         IN  IF data = None THEN skipped
             ELSE IF data.len < 2 THEN skipped
             ELSE LET new_trailing_stop ==
                          NewTrailingStop(pos.direction, data.close, LastAtr(data))
                  IN  IF MovesStop(pos.direction, new_trailing_stop, pos.stop_loss)
                      THEN [positions |->
                                <<[pos EXCEPT !.stop_loss = new_trailing_stop,
                                              !.trailing_stop = new_trailing_stop]>>
                                    \o rest.positions,
                            broker |->
                                <<[symbol |-> pos.symbol, new_sl |-> new_trailing_stop]>>
                                    \o rest.broker]
                      ELSE skipped

\* update_trailing_stops(get_latest_data, update_broker_sl), lines 224-258
UpdateTrailingStops(get_latest_data) ==
    /\ open_positions' = TrailStops(open_positions, get_latest_data).positions
    /\ call' = [op |-> "update_trailing_stops",
                broker |-> TrailStops(open_positions, get_latest_data).broker]
    /\ UNCHANGED <<rm, account_balance, trade_history, session_start_balance,
                   consecutive_losses, circuit_breaker_triggered>>
    /\ UNCHANGED <<btVars, liveVars>>

\* prices handed to check_stop_loss_take_profit
CheckPrices == {F(94), F(100), F(106)}

\* C16 mutant: only the first position of the symbol is looked at
SlTpReasonOfFirstPosition(ps, symbol, price) ==
    LET own == SelectSeq(ps, LAMBDA pos : pos.symbol = symbol)
    IN  IF own = <<>> THEN NoReason
        ELSE IF own[1].direction = "buy"
        THEN IF FLe(price, own[1].stop_loss) THEN "stop_loss"
             ELSE IF FGe(price, own[1].take_profit) THEN "take_profit"
             ELSE NoReason
        ELSE IF FGe(price, own[1].stop_loss) THEN "stop_loss"
             ELSE IF FLe(price, own[1].take_profit) THEN "take_profit"
             ELSE NoReason

\* check_stop_loss_take_profit, lines 285-309: the value returned
RECURSIVE SlTpReason(_, _, _)
SlTpReason(ps, symbol, price) ==
    IF ps = <<>> THEN NoReason
    ELSE IF ps[1].symbol # symbol THEN SlTpReason(Tail(ps), symbol, price)
    ELSE IF ps[1].direction = "buy"
    THEN IF FLe(price, ps[1].stop_loss) THEN "stop_loss"
         ELSE IF FGe(price, ps[1].take_profit) THEN "take_profit"
         ELSE SlTpReason(Tail(ps), symbol, price)
    ELSE IF FGe(price, ps[1].stop_loss) THEN "stop_loss"
         ELSE IF FLe(price, ps[1].take_profit) THEN "take_profit"
         ELSE SlTpReason(Tail(ps), symbol, price)

\* check_stop_loss_take_profit(symbol, current_price), lines 283-309
CheckStopLossTakeProfit(symbol, price) ==
    /\ call' = [op |-> "check_stop_loss_take_profit", symbol |-> symbol, price |-> price,
                ret |-> SlTpReason(open_positions, symbol, price)]
    /\ UNCHANGED <<rm, account_balance, open_positions, trade_history,
                   session_start_balance, consecutive_losses, circuit_breaker_triggered>>
    /\ UNCHANGED <<btVars, liveVars>>

\* C32 mutant: the refreshed balance also becomes the session's starting
\* balance
UpdateAccountBalanceStartingSession(new_balance) ==
    /\ account_balance' = new_balance
    /\ session_start_balance' = new_balance
    /\ UNCHANGED <<rm, open_positions, trade_history,
                   consecutive_losses, circuit_breaker_triggered>>
    /\ call' = NoCall
    /\ UNCHANGED <<btVars, liveVars>>

\* update_account_balance(new_balance), lines 327-330
UpdateAccountBalance(new_balance) ==
    /\ account_balance' = new_balance
    /\ UNCHANGED <<rm, open_positions, trade_history, session_start_balance,
                   consecutive_losses, circuit_breaker_triggered>>
    /\ call' = NoCall
    /\ UNCHANGED <<btVars, liveVars>>

\* config.py lines 113-114
FIXED_STOP_LOSS_PIPS == 20
FIXED_TAKE_PROFIT_PIPS == 40

\* lines 101 and 135: pip_value = 0.1
XauPipValue == Q(1, 10)

\* entry prices handed to calculate_stop_loss / calculate_take_profit
EntryPrices == {F(100), F(1900), F(2000)}

\* C17 mutant: the percent fallback of a sell mirrors nothing, it uses the
\* buy side's factor
PercentStopLossBuySideOnly(entry_price, direction, pct) ==
    FMul(entry_price, FSub(F(1), pct))

\* calculate_stop_loss, lines 124-128: the percent fallback
PercentStopLoss(entry_price, direction, pct) ==
    IF direction = "buy" THEN FMul(entry_price, FSub(F(1), pct))
                         ELSE FMul(entry_price, FAdd(F(1), pct))

\* calculate_take_profit, lines 158-162: the percent fallback
PercentTakeProfit(entry_price, direction, pct) ==
    IF direction = "buy" THEN FMul(entry_price, FAdd(F(1), pct))
                         ELSE FMul(entry_price, FSub(F(1), pct))

\* calculate_stop_loss(entry_price, direction, data), lines 98-130, under
\* SLTP_MODE = mode
StopLossLevel(mode, cfg, entry_price, direction, data) ==
    IF mode = "fixed"
    THEN LET sl_pips == FMul(F(FIXED_STOP_LOSS_PIPS), XauPipValue)
         IN  IF direction = "buy" THEN FSub(entry_price, sl_pips)
                                  ELSE FAdd(entry_price, sl_pips)
    ELSE IF mode = "atr" /\ data # None
    THEN LET sl_atr == FMul(F(ATR_STOP_LOSS_MULTIPLIER), LastAtr(data))
         IN  IF direction = "buy" THEN FSub(entry_price, sl_atr)
                                  ELSE FAdd(entry_price, sl_atr)
    ELSE PercentStopLoss(entry_price, direction, cfg.stop_loss_pct)

\* calculate_take_profit(entry_price, direction, data), lines 132-164, under
\* SLTP_MODE = mode
TakeProfitLevel(mode, cfg, entry_price, direction, data) ==
    IF mode = "fixed"
    THEN LET tp_pips == FMul(F(FIXED_TAKE_PROFIT_PIPS), XauPipValue)
         IN  IF direction = "buy" THEN FAdd(entry_price, tp_pips)
                                  ELSE FSub(entry_price, tp_pips)
    ELSE IF mode = "atr" /\ data # None
    THEN LET tp_atr == FMul(F(ATR_TAKE_PROFIT_MULTIPLIER), LastAtr(data))
         IN  IF direction = "buy" THEN FAdd(entry_price, tp_atr)
                                  ELSE FSub(entry_price, tp_atr)
    ELSE PercentTakeProfit(entry_price, direction, cfg.take_profit_pct)

\* calculate_stop_loss: nothing of the manager changes, the level is returned
CalculateStopLoss(entry_price, direction, data) ==
    /\ call' = [op |-> "calculate_stop_loss", entry_price |-> entry_price,
                direction |-> direction, data |-> data,
                ret |-> StopLossLevel(rm.sltp_mode, rm, entry_price, direction, data)]
    /\ UNCHANGED <<rm, account_balance, open_positions, trade_history,
                   session_start_balance, consecutive_losses,
                   circuit_breaker_triggered>>
    /\ UNCHANGED <<btVars, liveVars>>

\* calculate_take_profit: nothing of the manager changes, the level is returned
CalculateTakeProfit(entry_price, direction, data) ==
    /\ call' = [op |-> "calculate_take_profit", entry_price |-> entry_price,
                direction |-> direction, data |-> data,
                ret |-> TakeProfitLevel(rm.sltp_mode, rm, entry_price, direction, data)]
    /\ UNCHANGED <<rm, account_balance, open_positions, trade_history,
                   session_start_balance, consecutive_losses,
                   circuit_breaker_triggered>>
    /\ UNCHANGED <<btVars, liveVars>>

----------------------------------------------------------------------------
(* EnhancedTrader: the live trading cycle on its RiskManager *)

\* what fetch_mt5_data hands to process_symbol: None, an empty frame, or
\* ATR_PERIOD rows ending at close
MarketData ==
    {None, [len |-> 0, close |-> None, mean_true_range |-> None]}
        \cup {[len |-> ATR_PERIOD, close |-> p, mean_true_range |-> Q(3, 2)] :
                  p \in {F(100), F(106)}}

\* line 252: data is None or data.empty
NoMarketData(data) == data = None \/ data.len = 0

\* calculate_position_size, lines 88-96: the fixed lot size
FixedLotSize == Q(1, 100)

\* execute_buy_order / execute_sell_order, lines 362-384 and 409-431: the
\* position handed to add_position (lines 209-220)
OrderedPosition(symbol, direction, price, data) ==
    [symbol |-> symbol, direction |-> direction, entry_price |-> price,
     lot_size |-> FixedLotSize,
     stop_loss |-> StopLossLevel(rm.sltp_mode, rm, price, direction, data),
     take_profit |-> TakeProfitLevel(rm.sltp_mode, rm, price, direction, data),
     trailing_stop |-> NewTrailingStop(direction, price, LastAtr(data)),
     unrealized_pnl |-> F(0), pnl |-> F(0)]

\* C25 mutant: the order is placed whatever can_open_position answered
OrderAttemptedUngated(gate, signal, paper_trading) ==
    signal \in {1, -1} /\ ~paper_trading

\* process_symbol, lines 263-265, 280-283 and 302-305: an order goes to the
\* broker when the gate let the cycle through, the latest 'Position' is 1 or
\* -1 and the trader is not paper trading
OrderAttempted(gate, signal, paper_trading) ==
    gate /\ signal \in {1, -1} /\ ~paper_trading

\* process_symbol(symbol), lines 247-326, with check_position_exits (lines
\* 328-356) and execute_buy_order / execute_sell_order (lines 358-450).
\* data is the frame fetched, signal the latest 'Position' of the strategy,
\* closed whether the broker held a position of the symbol and closed it,
\* sent whether send_order succeeded.
CycleOutcome(symbol, data, signal, paper_trading, closed, sent) ==
    LET current_price == data.close
        exit_reason == SlTpReason(open_positions, symbol, current_price)
        removing == exit_reason # NoReason /\ ~paper_trading /\ closed
        ps1 == IF removing THEN Removed(open_positions, symbol, NoDirection)
                           ELSE open_positions
        gate == CanOpen(symbol, ps1, account_balance, session_start_balance,
                        consecutive_losses, rm)
        direction == IF signal = 1 THEN "buy" ELSE "sell"
        ordering == OrderAttempted(gate, signal, paper_trading)
        adding == ordering /\ sent
    IN  [open_positions |->
             IF adding
             THEN Append(ps1, OrderedPosition(symbol, direction, current_price, data))
             ELSE ps1,
         exit_reason |-> exit_reason, gate |-> gate,
         order_sent |-> ordering, added |-> adding]

ProcessSymbol(symbol, data, signal, paper_trading, closed, sent) ==
    IF NoMarketData(data)
    THEN /\ call' = [op |-> "process_symbol", symbol |-> symbol,
                     exits_checked |-> FALSE, exit_reason |-> NoReason,
                     gate_asked |-> FALSE, gate |-> FALSE,
                     order_sent |-> FALSE, added |-> FALSE]
         /\ UNCHANGED <<rm, account_balance, open_positions, trade_history,
                        session_start_balance, consecutive_losses,
                        circuit_breaker_triggered>>
         /\ UNCHANGED <<btVars, liveVars>>
    ELSE LET out == CycleOutcome(symbol, data, signal, paper_trading, closed, sent)
         IN  /\ open_positions' = out.open_positions
             /\ circuit_breaker_triggered' =
                    BreakerFlagAfterCheck(circuit_breaker_triggered, consecutive_losses, rm)
             /\ call' = [op |-> "process_symbol", symbol |-> symbol,
                         exits_checked |-> TRUE, exit_reason |-> out.exit_reason,
                         gate_asked |-> TRUE, gate |-> out.gate,
                         order_sent |-> out.order_sent, added |-> out.added]
             /\ UNCHANGED <<rm, account_balance, trade_history, session_start_balance,
                            consecutive_losses>>
             /\ UNCHANGED <<btVars, liveVars>>

\* The threads of main() (lines 614-629): the trading thread runs start() /
\* trading_loop(), the main thread serves the Flask API and the signal
\* handlers, and both reach the same RiskManager without a lock.  call holds
\* the place of the thread that runs stop(): not called, between two
\* positions of close_all_positions ("closing"), or inside remove_position
\* after the list comprehension of line 266 has been evaluated and before
\* its value is assigned to self.open_positions ("remove_position").
\* cycle_done tells that the process_symbol call that was in progress when
\* stop() cleared is_running (line 144) has finished; the loop starts no
\* other (lines 164, 173).
Stopping(at, symbol, filtered, cycle_done) ==
    [op |-> "stop", at |-> at, symbol |-> symbol, filtered |-> filtered,
     cycle_done |-> cycle_done]

\* stop(), lines 141-147, called by api_stop (line 610) or signal_handler
\* (line 117) while the trading thread is in its loop
Stop ==
    /\ call = NoCall
    /\ call' = Stopping("closing", "None", <<>>, FALSE)
    /\ UNCHANGED <<rm, account_balance, open_positions, trade_history,
                   session_start_balance, consecutive_losses,
                   circuit_breaker_triggered>>
    /\ UNCHANGED <<btVars, liveVars>>

\* close_all_positions, lines 457-460, into remove_position(pos.symbol): the
\* comprehension of risk_manager.py line 266 is evaluated
CloseAllRead(symbol) ==
    /\ call.op = "stop"
    /\ call.at = "closing"
    /\ call' = Stopping("remove_position", symbol,
                        Removed(open_positions, symbol, NoDirection), call.cycle_done)
    /\ UNCHANGED <<rm, account_balance, open_positions, trade_history,
                   session_start_balance, consecutive_losses,
                   circuit_breaker_triggered>>
    /\ UNCHANGED <<btVars, liveVars>>

\* risk_manager.py line 266: the value is assigned to self.open_positions
CloseAllAssign ==
    /\ call.op = "stop"
    /\ call.at = "remove_position"
    /\ open_positions' = call.filtered
    /\ call' = Stopping("closing", "None", <<>>, call.cycle_done)
    /\ UNCHANGED <<rm, account_balance, trade_history, session_start_balance,
                   consecutive_losses, circuit_breaker_triggered>>
    /\ UNCHANGED <<btVars, liveVars>>

\* a process_symbol call of the trading thread (live mode, data fetched):
\* any number before stop() is called, and the one that stop() finds in
\* progress
TradingCycle(symbol, data, signal, closed, sent) ==
    /\ call = NoCall \/ (call.op = "stop" /\ ~call.cycle_done)
    /\ ~NoMarketData(data)
    /\ open_positions' = CycleOutcome(symbol, data, signal, FALSE, closed, sent).open_positions
    /\ circuit_breaker_triggered' =
           BreakerFlagAfterCheck(circuit_breaker_triggered, consecutive_losses, rm)
    /\ call' = IF call = NoCall THEN NoCall ELSE [call EXCEPT !.cycle_done = TRUE]
    /\ UNCHANGED <<rm, account_balance, trade_history, session_start_balance,
                   consecutive_losses>>
    /\ UNCHANGED <<btVars, liveVars>>

\* config.py line 4
SYMBOLS == {"XAUUSD"}

\* close_all_positions, lines 452-464: remove_position(pos.symbol) for every
\* position the broker closed
RECURSIVE RemovedEach(_, _)
RemovedEach(ps, syms) ==
    IF syms = {} THEN ps
    ELSE LET symbol == CHOOSE x \in syms : TRUE
         IN  RemovedEach(Removed(ps, symbol, NoDirection), syms \ {symbol})

\* pause(), lines 546-550
Pause ==
    /\ is_trading' = FALSE
    /\ api' = "pause"
    /\ call' = NoCall
    /\ UNCHANGED <<rm, account_balance, open_positions, trade_history,
                   session_start_balance, consecutive_losses,
                   circuit_breaker_triggered>>
    /\ UNCHANGED <<MT5_CONNECTION_ACTIVE, MT5_CONNECTION_LOCK, conn_pc>>
    /\ UNCHANGED btVars

\* resume(), lines 552-556
Resume ==
    /\ is_trading' = TRUE
    /\ api' = "resume"
    /\ call' = NoCall
    /\ UNCHANGED <<rm, account_balance, open_positions, trade_history,
                   session_start_balance, consecutive_losses,
                   circuit_breaker_triggered>>
    /\ UNCHANGED <<MT5_CONNECTION_ACTIVE, MT5_CONNECTION_LOCK, conn_pc>>
    /\ UNCHANGED btVars

\* what one pass of the trading loop did
LoopPass(should, started, order_sent, paper_trade, added) ==
    [op |-> "trading_loop", should_be_trading |-> should, session_started |-> started,
     order_sent |-> order_sent, paper_trade |-> paper_trade, added |-> added]

\* One pass of the while loop of trading_loop (lines 164-181) of a running
\* trader: should is what should_be_trading() returned (lines 192-208: the
\* emergency stop, the daily loss limit, the trading hours); data, signal,
\* paper_trading, closed and sent are those of process_symbol for the one
\* symbol of SYMBOLS; closed_symbols are the symbols of the positions the
\* broker closed in stop_trading_session (lines 216-221).  A paper trade is
\* recorded by lines 291-300 and 313-322.
TradingLoopPass(should, data, signal, paper_trading, closed, sent, closed_symbols) ==
    /\ UNCHANGED <<rm, account_balance, trade_history, session_start_balance,
                   consecutive_losses>>
    /\ UNCHANGED <<api, MT5_CONNECTION_ACTIVE, MT5_CONNECTION_LOCK, conn_pc>>
    /\ UNCHANGED btVars
    /\ IF should
       THEN /\ is_trading' = TRUE
            /\ IF NoMarketData(data)
               THEN /\ call' = LoopPass(TRUE, ~is_trading, FALSE, FALSE, FALSE)
                    /\ UNCHANGED <<open_positions, circuit_breaker_triggered>>
               ELSE LET symbol == CHOOSE x \in SYMBOLS : TRUE
                        out == CycleOutcome(symbol, data, signal, paper_trading,
                                            closed, sent)
                    IN  /\ open_positions' = out.open_positions
                        /\ circuit_breaker_triggered' =
                               BreakerFlagAfterCheck(circuit_breaker_triggered,
                                                     consecutive_losses, rm)
                        /\ call' = LoopPass(TRUE, ~is_trading, out.order_sent,
                                            out.gate /\ signal \in {1, -1}
                                                /\ paper_trading,
                                            out.added)
       ELSE /\ is_trading' = FALSE
            /\ open_positions' =
                   IF is_trading /\ ~paper_trading
                   THEN RemovedEach(open_positions, closed_symbols)
                   ELSE open_positions
            /\ call' = LoopPass(FALSE, FALSE, FALSE, FALSE, FALSE)
            /\ UNCHANGED circuit_breaker_triggered

----------------------------------------------------------------------------
(* TradeManager.close_all_positions, execution/trade_manager.py *)

\* line 1219
max_retries == 3

\* the return codes of mt5.order_send the method tells apart: the code of
\* line 1238, the requote of line 1241, and any other
Retcodes == {"TRADE_RETCODE_DONE", "REQUOTE", "REJECTED"}

\* what the terminal answers while one position is being closed: whether
\* symbol_info_tick gave a tick (line 1206), the return code of each of the
\* max_retries orders that may be sent, and whether the ticks asked for after
\* a requote (line 1245) were given
Replies ==
    [tick : BOOLEAN, retcodes : [1..max_retries -> Retcodes], refreshed : BOOLEAN]

\* the most positions positions_get reports
MaxTickets == 2

\* what positions_get and last_error gave (lines 1194-1201): None with
\* error code 1, None with another code, or the positions, each with the
\* replies its close will get
Fetched ==
    {[found |-> "none", replies |-> <<>>], [found |-> "error", replies |-> <<>>]}
        \cup {[found |-> "positions", replies |-> r] :
                  r \in UNION {[1..n -> Replies] : n \in 0..MaxTickets}}

\* the retry loop of lines 1220-1257 from the given attempt on: "closed" at
\* the break of line 1240, "returned" when line 1248 or 1254 returns False,
\* "exhausted" when the for loop runs out
RECURSIVE CloseAttempts(_, _)
CloseAttempts(reply, attempt) ==
    IF attempt > max_retries THEN "exhausted"
    ELSE IF reply.retcodes[attempt] = "TRADE_RETCODE_DONE" THEN "closed"
    ELSE IF reply.retcodes[attempt] = "REQUOTE"
    THEN IF ~reply.refreshed THEN "returned" ELSE CloseAttempts(reply, attempt + 1)
    ELSE IF attempt = max_retries THEN "returned"
    ELSE CloseAttempts(reply, attempt + 1)

\* lines 1204-1259: the value returned once positions_get gave positions
RECURSIVE ClosePositions(_)
ClosePositions(replies) ==
    IF replies = <<>> THEN TRUE
    ELSE IF ~replies[1].tick THEN FALSE
    ELSE IF CloseAttempts(replies[1], 1) = "returned" THEN FALSE
    ELSE ClosePositions(Tail(replies))

\* close_all_positions(), lines 1186-1263: the value returned
CloseAllPositionsResult(connected, fetched) ==
    IF ~connected THEN FALSE
    ELSE IF fetched.found = "none" THEN TRUE
    ELSE IF fetched.found = "error" THEN FALSE
    ELSE ClosePositions(fetched.replies)

\* the call of close_all_positions under examination: connected is what
\* check_connection returned (line 1190)
CloseAllPositions(connected, fetched) ==
    /\ call = NoCall
    /\ call' = [op |-> "close_all_positions", connected |-> connected,
                fetched |-> fetched,
                result |-> CloseAllPositionsResult(connected, fetched)]
    /\ UNCHANGED <<rm, account_balance, open_positions, trade_history,
                   session_start_balance, consecutive_losses,
                   circuit_breaker_triggered>>
    /\ UNCHANGED <<btVars, liveVars>>

----------------------------------------------------------------------------
(* ensure_mt5_connection, data/fetch_mt5.py *)

\* The function runs in whichever thread asks for the connection, and
\* MT5_CONNECTION_LOCK is a plain module global: the test of line 83 and the
\* assignment of line 86 are separate reads and writes, with no lock object
\* around them.  conn_pc[t] is "out" while thread t is not in the function,
\* "line_83" once lines 71-82 are done, "line_86" once line 83 has read
\* False, and "inside" from the assignment of line 86 to the finally clause
\* of line 128.

\* how the section of lines 87-126 ends
ConnectOutcomes ==
    {"connected", "initialize_failed", "login_failed", "no_account_info", "exception"}

\* what a call of ensure_mt5_connection returned to thread t
Connection(t, returned) ==
    [op |-> "ensure_mt5_connection", thread |-> t, returned |-> returned]

RiskManagerUntouched ==
    /\ UNCHANGED <<rm, account_balance, open_positions, trade_history,
                   session_start_balance, consecutive_losses,
                   circuit_breaker_triggered>>
    /\ UNCHANGED <<is_trading, api>>
    /\ UNCHANGED btVars

\* lines 71-82: the call starts; alive tells whether account_info() still
\* answers on a connection marked active
CheckActive(t, alive) ==
    /\ conn_pc[t] = "out"
    /\ IF MT5_CONNECTION_ACTIVE /\ alive
       THEN /\ call' = Connection(t, TRUE)
            /\ UNCHANGED <<MT5_CONNECTION_ACTIVE, conn_pc>>
       ELSE /\ MT5_CONNECTION_ACTIVE' = FALSE
            /\ conn_pc' = [conn_pc EXCEPT ![t] = "line_83"]
            /\ call' = NoCall
    /\ UNCHANGED MT5_CONNECTION_LOCK
    /\ RiskManagerUntouched

\* lines 83-85: the flag is read
ReadLock(t) ==
    /\ conn_pc[t] = "line_83"
    /\ IF MT5_CONNECTION_LOCK
       THEN /\ conn_pc' = [conn_pc EXCEPT ![t] = "out"]
            /\ call' = Connection(t, FALSE)
       ELSE /\ conn_pc' = [conn_pc EXCEPT ![t] = "line_86"]
            /\ call' = NoCall
    /\ UNCHANGED <<MT5_CONNECTION_ACTIVE, MT5_CONNECTION_LOCK>>
    /\ RiskManagerUntouched

\* line 86: the flag is set
SetLock(t) ==
    /\ conn_pc[t] = "line_86"
    /\ MT5_CONNECTION_LOCK' = TRUE
    /\ conn_pc' = [conn_pc EXCEPT ![t] = "inside"]
    /\ call' = NoCall
    /\ UNCHANGED MT5_CONNECTION_ACTIVE
    /\ RiskManagerUntouched

\* lines 87-128: shutdown, initialize and login end one way or another and
\* the finally clause clears the flag
LeaveSection(t, outcome) ==
    /\ conn_pc[t] = "inside"
    /\ MT5_CONNECTION_ACTIVE' = IF outcome = "connected" THEN TRUE ELSE MT5_CONNECTION_ACTIVE
    /\ MT5_CONNECTION_LOCK' = FALSE
    /\ conn_pc' = [conn_pc EXCEPT ![t] = "out"]
    /\ call' = Connection(t, outcome = "connected")
    /\ RiskManagerUntouched

----------------------------------------------------------------------------
(* Specifications *)

\* Backtester.__init__ (lines 14-25) followed by lines 53-59
InitBacktest ==
    /\ self \in Configs
    /\ trades = <<>>
    /\ equity_curve = <<>>
    /\ has_signal_col \in BOOLEAN
    /\ balance = F(StartingBalance)
    /\ equity = F(StartingBalance)
    /\ position = None
    /\ trailing_stop = None
    /\ max_equity = F(StartingBalance)
    /\ drawdown_triggered = FALSE
    /\ i = 0
    /\ row = None
    /\ pc = "loop"
    /\ performance = None

\* RiskManager.__init__, lines 22-36
InitRiskWith(configs) ==
    /\ rm \in configs
    /\ account_balance = F(10000)
    /\ open_positions = <<>>
    /\ trade_history = <<>>
    /\ session_start_balance = account_balance
    /\ consecutive_losses = 0
    /\ circuit_breaker_triggered = FALSE
    /\ call = NoCall

\* the manager as config.py ships it: SLTP_MODE = 'atr'
InitRisk == InitRiskWith(RiskConfigs)

\* threads that may call ensure_mt5_connection: the trading thread
\* (enhanced_trader.py 626), the monitoring thread (line 135) and the thread
\* serving the API (line 629)
ConnThreads == {"trading", "monitoring", "api"}

\* EnhancedTrader.__init__ (enhanced_trader.py 72-75) and the globals of
\* config.py 9-10, no thread inside ensure_mt5_connection
InitLive ==
    /\ is_trading = FALSE
    /\ api = "none"
    /\ MT5_CONNECTION_ACTIVE = FALSE
    /\ MT5_CONNECTION_LOCK = FALSE
    /\ conn_pc = [t \in ConnThreads |-> "out"]

Init == InitBacktest /\ InitRisk /\ InitLive

\* one backtest run: the loop over the rows of a frame, then the evaluation
Next ==
    \/ \E r \in Rows, sig \in Signals : Bar(r.close, r.atr, sig)
    \/ LoopEnd
    \/ CalculatePerformance

Spec == Init /\ [][Next]_vars

\* one backtest run over a frame of ScenarioRows
NextScenario ==
    \/ \E r \in ScenarioRows, sig \in Signals : Bar(r.close, r.atr, sig)
    \/ LoopEnd
    \/ CalculatePerformance

SpecScenario == Init /\ [][NextScenario]_vars

\* run() called on a Backtester, and once more on the same instance
NextRerun ==
    \/ \E r \in FlatRows, sig \in Signals : Bar(r.close, r.atr, sig)
    \/ LoopEnd
    \/ CalculatePerformance
    \/ SimulateTradingAgain

SpecRerun == Init /\ [][NextRerun]_vars

\* one backtest run over a frame whose 'Signal' column is not confined to
\* -1, 0 and 1
NextAnySignal ==
    \/ \E r \in FlatRows, sig \in AnySignals : Bar(r.close, r.atr, sig)
    \/ LoopEnd
    \/ CalculatePerformance

SpecAnySignal == Init /\ [][NextAnySignal]_vars

\* the trading loop of a running trader, and the API that pauses and
\* resumes it
NextPause ==
    \/ \E should \in BOOLEAN, data \in MarketData, signal \in Signals,
          paper_trading \in BOOLEAN, closed \in BOOLEAN, sent \in BOOLEAN,
          closed_symbols \in SUBSET Symbols :
           TradingLoopPass(should, data, signal, paper_trading, closed, sent,
                           closed_symbols)
    \/ Pause
    \/ Resume

\* any sequence of calls on one RiskManager
NextRisk ==
    \/ CanOpenPosition
    \/ ResetSession
    \/ \E win_loss \in {"win", "loss"} :
           RecordTradeResult("XAUUSD", IF win_loss = "win" THEN F(100) ELSE F(-100), win_loss)
    \/ \E o \in Opened : AddPosition(o[1], o[2])
    \/ \E symbol \in Symbols : RemovePosition(symbol, NoDirection)
    \/ \E symbol \in Symbols, price \in MarkPrices : UpdatePositionPnl(symbol, price)
    \/ \E new_balance \in Balances : UpdateAccountBalance(new_balance)

\* a RiskManager on its own: no backtest runs beside it
InitRiskOnly == InitBacktest /\ has_signal_col /\ InitRisk /\ InitLive

SpecRisk == InitRiskOnly /\ [][NextRisk]_vars

SpecPause == InitRiskOnly /\ [][NextPause]_vars

\* one call of close_all_positions, for every answer of the terminal
NextCloseAll ==
    /\ call = NoCall
    /\ \E connected \in BOOLEAN, fetched \in Fetched : CloseAllPositions(connected, fetched)

SpecCloseAll == InitRiskOnly /\ [][NextCloseAll]_vars

\* the threads of the process calling ensure_mt5_connection
NextConnect ==
    \/ \E t \in ConnThreads, alive \in BOOLEAN : CheckActive(t, alive)
    \/ \E t \in ConnThreads : ReadLock(t)
    \/ \E t \in ConnThreads : SetLock(t)
    \/ \E t \in ConnThreads, outcome \in ConnectOutcomes : LeaveSection(t, outcome)

SpecConnect == InitRiskOnly /\ [][NextConnect]_vars

\* any sequence of calls on the position collection of one RiskManager
NextPositions ==
    \/ \E o \in Opened : AddPosition(o[1], o[2])
    \/ \E symbol \in Symbols, direction \in {"buy", "sell", NoDirection} :
           RemovePosition(symbol, direction)
    \/ \E get_latest_data \in [Symbols -> LatestData] : UpdateTrailingStops(get_latest_data)
    \/ \E symbol \in Symbols, price \in CheckPrices : CheckStopLossTakeProfit(symbol, price)

SpecPositions == InitRiskOnly /\ [][NextPositions]_vars

\* any sequence of the calls of one RiskManager that a session runs through
NextSession ==
    \/ CanOpenPosition
    \/ ResetSession
    \/ \E win_loss \in {"win", "loss"} :
           RecordTradeResult("XAUUSD", IF win_loss = "win" THEN F(100) ELSE F(-100), win_loss)
    \/ \E direction \in {"buy", "sell"} : AddPosition("XAUUSD", direction)
    \/ RemovePosition("XAUUSD", NoDirection)
    \/ UpdatePositionPnl("XAUUSD", F(106))
    \/ \E new_balance \in Balances : UpdateAccountBalance(new_balance)
    \/ \E data \in {None, [len |-> ATR_PERIOD, close |-> F(105), mean_true_range |-> Q(3, 2)]} :
           UpdateTrailingStops([symbol \in Symbols |-> data])

SpecSession == InitRiskOnly /\ [][NextSession]_vars

\* the trading loop of an EnhancedTrader, with the balance refreshed by the
\* monitoring loop (line 473); the trader records no trade results on its
\* manager
NextTrader ==
    \/ \E symbol \in Symbols, data \in MarketData, signal \in Signals,
          paper_trading \in BOOLEAN, closed \in BOOLEAN, sent \in BOOLEAN :
           ProcessSymbol(symbol, data, signal, paper_trading, closed, sent)
    \/ \E new_balance \in Balances : UpdateAccountBalance(new_balance)

SpecTrader == InitRiskOnly /\ [][NextTrader]_vars

\* the trading thread and the thread that runs stop(), interleaved
NextThreads ==
    \/ \E symbol \in Symbols, data \in MarketData, signal \in Signals,
          closed \in BOOLEAN, sent \in BOOLEAN :
           TradingCycle(symbol, data, signal, closed, sent)
    \/ Stop
    \/ \E symbol \in Symbols : CloseAllRead(symbol)
    \/ CloseAllAssign

SpecThreads == InitRiskOnly /\ [][NextThreads]_vars

\* the stop and target of a new position, asked of a manager in either mode
NextLevels ==
    \/ \E entry_price \in EntryPrices, direction \in {"buy", "sell"}, data \in LatestData :
           CalculateStopLoss(entry_price, direction, data)
    \/ \E entry_price \in EntryPrices, direction \in {"buy", "sell"}, data \in LatestData :
           CalculateTakeProfit(entry_price, direction, data)

InitLevels == InitBacktest /\ has_signal_col /\ InitRiskWith(LevelConfigs) /\ InitLive

SpecLevels == InitLevels /\ [][NextLevels]_vars

----------------------------------------------------------------------------
(* Properties of the simulation loop *)

\* a record of self.trades written at a close (lines 114-128)
IsClosedRecord(t) == "exit_reason" \in DOMAIN t

\* a record of self.trades written at an entry (lines 152-163, 181-192)
IsEntryLog(t) == "status" \in DOMAIN t

\* the step appends a close record for the position held before it
ClosesPosition ==
    /\ position # None
    /\ Len(trades') > Len(trades)
    /\ IsClosedRecord(trades'[Len(trades) + 1])
    /\ trades'[Len(trades) + 1].entry_time = position.entry_time

\* the step appends an entry log
OpensPosition ==
    /\ Len(trades') > Len(trades)
    /\ IsEntryLog(trades'[Len(trades')])

\* C1: at most one position is open at any time.  The loop holds its position
\* in one variable, so the claim is that an entry never overwrites it: a
\* position is created only in a step that starts with none open or that
\* closes the one held first, and a held position changes only by being closed.
C1_StepKeepsSinglePosition ==
    /\ OpensPosition => (position = None \/ ClosesPosition)
    /\ (position # None /\ position' # position) => ClosesPosition
    /\ OpensPosition =>
           /\ position' # None
           /\ position'.entry_time = trades'[Len(trades')].entry_time

C1_SinglePosition == [][C1_StepKeepsSinglePosition]_vars

\* C1 witness: a long position opened on an earlier bar is still the one held
\* after a bar whose Signal was 1 again
C1_Witness ==
    /\ pc = "loop"
    /\ position # None
    /\ position.direction = "long"
    /\ position.entry_time + 1 < i
    /\ row.Signal = 1

\* the pnl of the close records of a trade list
RECURSIVE SumClosedPnl(_)
SumClosedPnl(tr) ==
    IF tr = <<>> THEN F(0)
    ELSE IF IsClosedRecord(tr[1]) THEN FAdd(tr[1].pnl, SumClosedPnl(Tail(tr)))
    ELSE SumClosedPnl(Tail(tr))

\* C2: after a run, the final_balance reported by the evaluation is the
\* starting balance plus the sum of the pnl of the trades closed in the run.
C2_FinalBalanceReported ==
    pc = "evaluated" =>
        /\ "final_balance" \in DOMAIN performance
        /\ performance.final_balance = FAdd(F(StartingBalance), SumClosedPnl(trades))

\* C3: once drawdown_triggered is true it stays true for the rest of the run,
\* and no bar on which it is true opens a position; a position held when the
\* flag is set can still be closed (the witness).
C3_StepStickyDrawdown ==
    /\ drawdown_triggered => drawdown_triggered'
    /\ drawdown_triggered' => ~OpensPosition
    /\ drawdown_triggered' => (position' = None \/ position' = position)

C3_StickyDrawdown == [][C3_StepStickyDrawdown]_vars

\* C3 witness: the equity after the first bar was more than max_drawdown below
\* the starting equity, so the flag was set on the second bar with the position
\* of the first bar open; that position was closed on the third bar, whose
\* Signal asked for an entry that was not made
C3_Witness ==
    /\ drawdown_triggered
    /\ i = 3
    /\ FGt(FDiv(FSub(F(StartingBalance), equity_curve[1].equity), F(StartingBalance)),
           self.max_drawdown)
    /\ position = None
    /\ row.Signal # 0
    /\ IsClosedRecord(trades[Len(trades)])
    /\ trades[Len(trades)].entry_time = 0
    /\ trades[Len(trades)].exit_time = 2

\* the trailing stop in force after the step, for the position held before it:
\* the variable while the position stays open, the value written into the
\* close record when the step closes it
TrailingAfterStep ==
    IF position' = position THEN trailing_stop' ELSE trades'[Len(trades) + 1].trailing_stop

\* C5: while a position is open its trailing stop never loosens: after a bar
\* it is what it was, or it was unset and is now set, or it moved up (long) /
\* down (short).
C5_StepTrailingMonotone ==
    (position # None /\ (position' = position \/ ClosesPosition)) =>
        \/ TrailingAfterStep = trailing_stop
        \/ trailing_stop = None
        \/ position.direction = "long" /\ FGt(TrailingAfterStep, trailing_stop)
        \/ position.direction = "short" /\ FLt(TrailingAfterStep, trailing_stop)

C5_TrailingMonotone == [][C5_StepTrailingMonotone]_vars

\* C5 witness: a long position whose stop had been raised above its initial
\* level was closed on a bar whose candidate (close - ATR_MULTIPLIER * atr) lay
\* below the stop, and the close record carries the raised stop
C5_Witness ==
    /\ trades # <<>>
    /\ LET t == trades[Len(trades)]
       IN  /\ IsClosedRecord(t)
           /\ t.direction = "long"
           /\ t.exit_time = i - 1
           /\ t.trailing_stop # None
           /\ FGt(t.trailing_stop, t.stop_loss)
           /\ row.atr # None
           /\ FLt(FSub(row.close, FMul(F(ATR_MULTIPLIER), row.atr)), t.trailing_stop)

\* C6: the balance changes only on a bar that closes a position, and then by
\* that trade's pnl: price difference in the position's direction times lot
\* size times contract size, less the commission on the lot.
C6_StepBalance ==
    IF ClosesPosition
    THEN LET t == trades'[Len(trades) + 1]
             move == IF position.direction = "long"
                     THEN FSub(row'.close, position.entry_price)
                     ELSE FSub(position.entry_price, row'.close)
             net == FMul(FMul(FSub(move, self.commission), position.lot_size),
                         F(ContractSize))
         IN  /\ t.pnl = net
             /\ balance' = FAdd(balance, t.pnl)
             /\ t.balance = balance'
    ELSE balance' = balance

C6_BalanceOnlyAtClose == [][C6_StepBalance]_vars

\* C6 witness: a trade was closed with a non-zero pnl, a new position has been
\* opened since, and the balance is still the one written at the close
C6_Witness ==
    /\ position # None
    /\ Len(trades) >= 3
    /\ \E k \in 1..Len(trades) :
           /\ IsClosedRecord(trades[k])
           /\ trades[k].pnl # F(0)
           /\ balance = trades[k].balance
           /\ balance = FAdd(F(StartingBalance), trades[k].pnl)
    /\ equity_curve[Len(equity_curve)].balance = balance

\* C7: the exit_reason of a close is the first condition that holds, in the
\* order trailing_stop, stop_loss, take_profit, opposite_signal, for long and
\* short alike; a close records one reason and only a bar on which one of the
\* four holds closes.
C7_StepExitReason ==
    ClosesPosition =>
        LET t == trades'[Len(trades) + 1]
            price == row'.close
            long == position.direction = "long"
            trailing_hit == /\ t.trailing_stop # None
                            /\ IF long THEN FLe(price, t.trailing_stop)
                                       ELSE FGe(price, t.trailing_stop)
            stop_hit == IF long THEN FLe(price, position.stop_loss)
                                ELSE FGe(price, position.stop_loss)
            target_hit == IF long THEN FGe(price, position.take_profit)
                                  ELSE FLe(price, position.take_profit)
            opposite == row'.Signal = (IF long THEN -1 ELSE 1)
        IN  /\ trailing_hit => t.exit_reason = "trailing_stop"
            /\ (~trailing_hit /\ stop_hit) => t.exit_reason = "stop_loss"
            /\ (~trailing_hit /\ ~stop_hit /\ target_hit) => t.exit_reason = "take_profit"
            /\ (~trailing_hit /\ ~stop_hit /\ ~target_hit) =>
                   (opposite /\ t.exit_reason = "opposite_signal")

C7_ExitReasonPriority == [][C7_StepExitReason]_vars

\* C7 witness: a bar on which the trailing stop, the stop loss and the opposite
\* signal all held closed a long position, and the reason recorded is
\* trailing_stop
C7_Witness ==
    /\ trades # <<>>
    /\ LET t == trades[Len(trades)]
       IN  /\ IsClosedRecord(t)
           /\ t.exit_time = i - 1
           /\ t.direction = "long"
           /\ t.trailing_stop # None
           /\ FLe(t.exit_price, t.trailing_stop)
           /\ FLe(t.exit_price, t.stop_loss)
           /\ row.Signal = -1
           /\ t.exit_reason = "trailing_stop"

\* C9: every record of the trade list is a close record, with exit_time,
\* exit_price, pnl, balance and an exit_reason of the listed set, so that the
\* list has one record per position closed.
C9_OnlyClosedRecords ==
    \A k \in 1..Len(trades) :
        /\ {"exit_time", "exit_price", "pnl", "balance", "exit_reason"} \subseteq DOMAIN trades[k]
        /\ trades[k].exit_reason \in
               {"stop_loss", "take_profit", "trailing_stop", "opposite_signal", "manual"}

\* C10: the evaluation of a run without trades does not raise and returns
\* every Summary field, with num_trades, win_rate, sharpe_ratio and
\* total_return equal to 0.
C10_EmptySummary ==
    (pc = "evaluated" /\ trades = <<>>) =>
        /\ "raised" \notin DOMAIN performance
        /\ {"total_return", "num_trades", "win_rate", "avg_win", "avg_loss",
            "max_drawdown", "sharpe_ratio", "final_balance"} \subseteq DOMAIN performance
        /\ performance.num_trades = 0
        /\ performance.win_rate = F(0)
        /\ performance.sharpe_ratio = F(0)
        /\ performance.total_return = F(0)

----------------------------------------------------------------------------
(* Properties of the RiskManager *)

\* C4: once the breaker has tripped (the flag check_circuit_breaker sets when
\* circuit_breaker_losses consecutive losses have been recorded, and that only
\* reset_session clears), can_open_position returns False for every symbol.
C4_BreakerBlocksUntilReset ==
    circuit_breaker_triggered => \A symbol \in Symbols : ~Returns(symbol)

\* session drawdown above the session limit
SessionLimitHit ==
    FGt(FDiv(FSub(session_start_balance, account_balance), session_start_balance),
        rm.max_drawdown_per_session)

\* |sum of the unrealized pnl of the symbol's positions| / balance above the symbol limit
SymbolLimitHit(symbol) ==
    FGt(FDiv(FAbs(SumUnrealized(SelectSeq(open_positions, LAMBDA pos : pos.symbol = symbol))),
             account_balance),
        rm.max_drawdown_per_symbol)

\* sum over the positions of |unrealized pnl| / balance at or above the portfolio limit
PortfolioLimitHit ==
    FGe(CalculatePortfolioRisk(open_positions, account_balance), rm.max_portfolio_risk)

\* C8: can_open_position(symbol) returns False exactly when the breaker is
\* tripped (its flag, as the call leaves it), or the session drawdown is above
\* its limit, or the symbol's drawdown is above its limit, or max_positions
\* positions are open, or the portfolio risk is at or above its limit.
C8_GateExactly ==
    \A symbol \in Symbols :
        Returns(symbol) =
            ~(\/ BreakerFlagAfterCheck(circuit_breaker_triggered, consecutive_losses, rm)
              \/ SessionLimitHit
              \/ SymbolLimitHit(symbol)
              \/ Len(open_positions) >= rm.max_positions
              \/ PortfolioLimitHit)

\* the number of losses at the end of a trade history
RECURSIVE TrailingLosses(_)
TrailingLosses(th) ==
    IF th = <<>> \/ th[Len(th)].win_loss # "loss" THEN 0
    ELSE 1 + TrailingLosses(SubSeq(th, 1, Len(th) - 1))

\* C11: record_trade_result sets consecutive_losses to 0 on a win and adds
\* exactly 1 on a loss; no other call changes it except reset_session, which
\* zeroes it, so it is the trailing run of losses since the last win or reset
\* (never more than the run of losses that ends the history).
C11_StepCountsLosses ==
    /\ Len(trade_history') = Len(trade_history) + 1 =>
           LET r == trade_history'[Len(trade_history')]
           IN  /\ r.win_loss = "win" => consecutive_losses' = 0
               /\ r.win_loss = "loss" => consecutive_losses' = consecutive_losses + 1
    /\ Len(trade_history') = Len(trade_history) =>
           consecutive_losses' \in {consecutive_losses, 0}
    /\ consecutive_losses' <= TrailingLosses(trade_history')

C11_ConsecutiveLosses == [][C11_StepCountsLosses]_vars

\* C11 witness: a win followed by two losses, counted as 2
C11_Witness ==
    /\ Len(trade_history) = 3
    /\ trade_history[1].win_loss = "win"
    /\ trade_history[2].win_loss = "loss"
    /\ trade_history[3].win_loss = "loss"
    /\ consecutive_losses = 2

\* C12: circuit_breaker_triggered turns true only in a step that changes
\* nothing else and starts with consecutive_losses >= circuit_breaker_losses
\* (the check made by can_open_position); it turns false only in
\* reset_session, after which the flag is false, consecutive_losses is 0 and
\* the breaker check passes.
C12_StepFlag ==
    /\ (~circuit_breaker_triggered /\ circuit_breaker_triggered') =>
           /\ consecutive_losses >= rm.circuit_breaker_losses
           /\ UNCHANGED <<rm, account_balance, open_positions, trade_history,
                          session_start_balance, consecutive_losses>>
    /\ (circuit_breaker_triggered /\ ~circuit_breaker_triggered') =>
           /\ session_start_balance' = account_balance
           /\ UNCHANGED <<rm, account_balance, open_positions, trade_history>>
    /\ ((circuit_breaker_triggered /\ ~circuit_breaker_triggered')
            \/ session_start_balance' # session_start_balance) =>
           /\ ~circuit_breaker_triggered'
           /\ consecutive_losses' = 0
           /\ CheckCircuitBreaker(consecutive_losses', rm')

C12_FlagTransitions == [][C12_StepFlag]_vars

\* C12 witness: the history ends with circuit_breaker_losses losses, yet the
\* count is 0 and the flag false, which only a reset_session after them
\* produces; the session restarted from the current balance and the gate is open
C12_Witness ==
    /\ TrailingLosses(trade_history) >= rm.circuit_breaker_losses
    /\ ~circuit_breaker_triggered
    /\ consecutive_losses = 0
    /\ session_start_balance = account_balance
    /\ session_start_balance # F(StartingBalance)
    /\ Returns("XAUUSD")

\* C13: record_trade_result appends to trade_history and changes
\* consecutive_losses, nothing else: the flag, open_positions, account_balance
\* and session_start_balance are as before, so a breaker whose threshold it
\* reaches is tripped only by the next can_open_position.
C13_StepRecordFrame ==
    Len(trade_history') > Len(trade_history) =>
        /\ SubSeq(trade_history', 1, Len(trade_history)) = trade_history
        /\ Len(trade_history') = Len(trade_history) + 1
        /\ UNCHANGED <<rm, circuit_breaker_triggered, open_positions, account_balance,
                       session_start_balance>>

C13_RecordFrame == [][C13_StepRecordFrame]_vars

\* C13 witness: circuit_breaker_losses losses have been recorded and the flag
\* is still false, while the gate already refuses
C13_Witness ==
    /\ consecutive_losses >= rm.circuit_breaker_losses
    /\ ~circuit_breaker_triggered
    /\ ~Returns("XAUUSD")

\* the calls update_broker_sl(symbol, new_sl) owed for the stops that differ
\* between the positions before and after, in the order of the collection
RECURSIVE BrokerCallsOwed(_, _)
BrokerCallsOwed(before, after) ==
    IF before = <<>> THEN <<>>
    ELSE (IF after[1].stop_loss # before[1].stop_loss
          THEN <<[symbol |-> before[1].symbol, new_sl |-> after[1].stop_loss]>>
          ELSE <<>>) \o BrokerCallsOwed(Tail(before), Tail(after))

\* C14: a call of update_trailing_stops leaves every position in place and
\* changes at most its stop (stop_loss and trailing_stop together); the stop
\* of a buy position does not go down and that of a sell position does not go
\* up; update_broker_sl is called once, with the new stop, for each position
\* whose stop moved, in order, and for no other position.
C14_StepTrailingStops ==
    call'.op = "update_trailing_stops" =>
        /\ Len(open_positions') = Len(open_positions)
        /\ \A k \in 1..Len(open_positions) :
               LET old == open_positions[k]
                   new == open_positions'[k]
               IN  /\ [new EXCEPT !.stop_loss = old.stop_loss,
                                  !.trailing_stop = old.trailing_stop] = old
                   /\ old.direction = "buy" => FGe(new.stop_loss, old.stop_loss)
                   /\ old.direction # "buy" => FLe(new.stop_loss, old.stop_loss)
                   /\ new.stop_loss # old.stop_loss => new.trailing_stop = new.stop_loss
                   /\ new.stop_loss = old.stop_loss => new.trailing_stop = old.trailing_stop
        /\ call'.broker = BrokerCallsOwed(open_positions, open_positions')

C14_TrailingStopsOnlyTighten == [][C14_StepTrailingStops]_vars

\* C14 witness: one call moved the stop of the first position (a buy, now above
\* its initial 97) and told the broker so once, while the second position,
\* whose symbol had no frame or a looser candidate, kept its stop
C14_Witness ==
    /\ call.op = "update_trailing_stops"
    /\ Len(open_positions) = 2
    /\ open_positions[1].direction = "buy"
    /\ FGt(open_positions[1].stop_loss, F(97))
    /\ open_positions[2].trailing_stop = None
    /\ call.broker = <<[symbol |-> open_positions[1].symbol,
                        new_sl |-> open_positions[1].stop_loss]>>

\* C15: remove_position(symbol) removes every position of the symbol,
\* remove_position(symbol, direction) those of the symbol and direction; the
\* other positions stay as they were and in their order, and when none
\* matches the collection is unchanged.
C15_StepRemove ==
    call'.op = "remove_position" =>
        LET matches(pos) == /\ pos.symbol = call'.symbol
                            /\ call'.direction \in {NoDirection, pos.direction}
            kept == {k \in 1..Len(open_positions) : ~matches(open_positions[k])}
            rank(k) == Cardinality({j \in kept : j <= k})
        IN  /\ Len(open_positions') = Cardinality(kept)
            /\ \A k \in kept : open_positions'[rank(k)] = open_positions[k]
            /\ kept = 1..Len(open_positions) => open_positions' = open_positions

C15_RemoveExactlyMatching == [][C15_StepRemove]_vars

\* C15 witness: after remove_position(symbol, 'buy') a sell position of the
\* same symbol is in the collection
C15_Witness ==
    /\ call.op = "remove_position"
    /\ call.direction = "buy"
    /\ \E k \in 1..Len(open_positions) :
           /\ open_positions[k].symbol = call.symbol
           /\ open_positions[k].direction = "sell"

\* the price has reached the stop / the target of the position
StopReached(pos, price) ==
    IF pos.direction = "buy" THEN FLe(price, pos.stop_loss) ELSE FGe(price, pos.stop_loss)

TargetReached(pos, price) ==
    IF pos.direction = "buy" THEN FGe(price, pos.take_profit) ELSE FLe(price, pos.take_profit)

\* check_stop_loss_take_profit changes nothing of the RiskManager
C16_NothingMutated ==
    UNCHANGED <<rm, account_balance, open_positions, trade_history, session_start_balance,
                consecutive_losses, circuit_breaker_triggered>>

\* C16 as stated: check_stop_loss_take_profit mutates nothing and returns
\* 'stop_loss' when the price has reached the stop of a position of the
\* symbol, otherwise 'take_profit' when it has reached the target of one,
\* otherwise None.
C16_StepAsStated ==
    call'.op = "check_stop_loss_take_profit" =>
        LET own == {k \in 1..Len(open_positions) : open_positions[k].symbol = call'.symbol}
        IN  /\ C16_NothingMutated
            /\ call'.ret =
                   IF \E k \in own : StopReached(open_positions[k], call'.price)
                   THEN "stop_loss"
                   ELSE IF \E k \in own : TargetReached(open_positions[k], call'.price)
                   THEN "take_profit"
                   ELSE NoReason

C16_StopBeforeTargetAcrossPositions == [][C16_StepAsStated]_vars

\* C16 amended: check_stop_loss_take_profit mutates nothing and answers for
\* the first position of the symbol, in the order of the collection, whose
\* stop or target the price has reached: 'stop_loss' if it is that position's
\* stop, 'take_profit' otherwise; None when no position of the symbol has
\* been reached.
C16_StepFirstReached ==
    call'.op = "check_stop_loss_take_profit" =>
        LET reached == {k \in 1..Len(open_positions) :
                           /\ open_positions[k].symbol = call'.symbol
                           /\ \/ StopReached(open_positions[k], call'.price)
                              \/ TargetReached(open_positions[k], call'.price)}
        IN  /\ C16_NothingMutated
            /\ reached = {} => call'.ret = NoReason
            /\ reached # {} =>
                   LET first == CHOOSE k \in reached : \A j \in reached : k <= j
                   IN  call'.ret = IF StopReached(open_positions[first], call'.price)
                                   THEN "stop_loss" ELSE "take_profit"

C16_FirstReachedPosition == [][C16_StepFirstReached]_vars

\* C16 witness: the call returned 'take_profit' for the first position of the
\* symbol while the stop of a later position of the symbol was reached too
C16_Witness ==
    /\ call.op = "check_stop_loss_take_profit"
    /\ call.ret = "take_profit"
    /\ \E k \in 1..Len(open_positions) :
           /\ open_positions[k].symbol = call.symbol
           /\ StopReached(open_positions[k], call.price)

\* C17: calculate_stop_loss and calculate_take_profit called without price
\* data return the percentage levels (buy: entry * (1 - stop_loss_pct) and
\* entry * (1 + take_profit_pct), sell mirrored) whichever SLTP_MODE is
\* configured.
IsLevelCall == call.op \in {"calculate_stop_loss", "calculate_take_profit"}

PercentLevelOf(c) ==
    LET down == FMul(c.entry_price, FSub(F(1), IF c.op = "calculate_stop_loss"
                                                 THEN rm.stop_loss_pct
                                                 ELSE rm.take_profit_pct))
        up   == FMul(c.entry_price, FAdd(F(1), IF c.op = "calculate_stop_loss"
                                                 THEN rm.stop_loss_pct
                                                 ELSE rm.take_profit_pct))
    IN  IF (c.op = "calculate_stop_loss") = (c.direction = "buy") THEN down ELSE up

FixedLevelOf(c) ==
    LET pips == IF c.op = "calculate_stop_loss"
                THEN FMul(F(FIXED_STOP_LOSS_PIPS), XauPipValue)
                ELSE FMul(F(FIXED_TAKE_PROFIT_PIPS), XauPipValue)
    IN  IF (c.op = "calculate_stop_loss") = (c.direction = "buy")
        THEN FSub(c.entry_price, pips) ELSE FAdd(c.entry_price, pips)

\* as stated: in every mode
C17_PercentWithoutDataAnyMode ==
    (IsLevelCall /\ call.data = None) => call.ret = PercentLevelOf(call)

\* C17 as the code has it: without data the percentage levels are returned
\* in every mode but 'fixed'; in 'fixed' mode the levels are the entry price
\* moved by FIXED_STOP_LOSS_PIPS / FIXED_TAKE_PROFIT_PIPS pips of 0.1.
C17_PercentWithoutDataUnlessFixed ==
    (IsLevelCall /\ call.data = None) =>
        call.ret = IF rm.sltp_mode = "fixed" THEN FixedLevelOf(call)
                                            ELSE PercentLevelOf(call)

\* a sell's stop asked without data of a manager in 'atr' mode: 2000 * 1.3
C17_Witness ==
    /\ rm.sltp_mode = "atr"
    /\ call.op = "calculate_stop_loss"
    /\ call.direction = "sell"
    /\ call.data = None
    /\ call.entry_price = F(2000)
    /\ call.ret = F(2600)

\* C18: when the ATR value is unavailable on an entry bar (the first bars of
\* the frame, where the ATR series is undefined, included) the run does not
\* abort and the position is opened with stop_loss and take_profit at the
\* fixed percentage of the entry price (long: 0.97 and 1.03 times the entry,
\* short: 1.03 and 0.97 times) and with no trailing stop.
AtrUnavailable(atr) == atr = None \/ IsNaN(atr)

PercentLevels(pos) ==
    IF pos.direction = "long"
    THEN /\ pos.stop_loss = FMul(pos.entry_price, PctBelow)
         /\ pos.take_profit = FMul(pos.entry_price, PctAbove)
    ELSE /\ pos.stop_loss = FMul(pos.entry_price, PctAbove)
         /\ pos.take_profit = FMul(pos.entry_price, PctBelow)

C18_StepFallback ==
    (OpensPosition /\ AtrUnavailable(row'.atr)) =>
        /\ pc' # "raised"
        /\ position' # None
        /\ PercentLevels(position')
        /\ trailing_stop' = None

C18_PercentFallbackWithoutAtr == [][C18_StepFallback]_vars

\* the stop distance of line 138 / 168, read off the opened position
StopDistance(pos) == FAbs(FSub(pos.entry_price, pos.stop_loss))

\* C19: when the stop distance |entry - stop_loss| is zero on an entry bar,
\* nothing is divided by zero, the position is opened with the configured
\* fixed lot size, and the run continues.
C19_StepZeroStopDistance ==
    (OpensPosition /\ StopDistance(position') = F(0)) =>
        /\ pc' = "loop"
        /\ i' = i + 1
        /\ position'.lot_size = self.lot_size
        /\ trades'[Len(trades')].lot_size = self.lot_size

C19_ZeroStopDistance == [][C19_StepZeroStopDistance]_vars

\* an entry on a bar whose ATR is 0: the stop sits on the entry price
C19_Witness ==
    /\ position # None
    /\ position.entry_time = i - 1
    /\ row.atr = F(0)
    /\ position.stop_loss = position.entry_price
    /\ position.lot_size = self.lot_size
    /\ pc = "loop"

\* C20: for every entry with a positive stop distance the lot size of the
\* opened position is risk_per_trade * balance / (stop_distance * pip_value),
\* with the balance at the moment of entry; balance 10000, risk 0.01, stop
\* distance 10 and pip value 1 give a lot size of 10.
ScenarioB ==
    LotSize(F(10), F(10000),
            [lot_size |-> Q(1, 1000), risk_per_trade |-> Q(1, 100), pip_value |-> F(1)])
        = F(10)

C20_StepLotSize ==
    /\ ScenarioB
    /\ (OpensPosition /\ FGt(StopDistance(position'), F(0))) =>
           position'.lot_size =
               FDiv(FMul(self.risk_per_trade, balance'),
                    FMul(StopDistance(position'), self.pip_value))

C20_LotSizeFromRisk == [][C20_StepLotSize]_vars

\* an entry made after a close has changed the balance, sized from the
\* balance it finds
C20_Witness ==
    /\ position # None
    /\ position.entry_time = i - 1
    /\ balance # F(StartingBalance)
    /\ FGt(StopDistance(position), F(0))
    /\ position.lot_size =
           FDiv(FMul(self.risk_per_trade, balance),
                FMul(StopDistance(position), self.pip_value))
    /\ position.lot_size # self.lot_size

\* C21: the realized pnl of every closed trade is (exit - entry) * lot_size *
\* 100000 for a long and (entry - exit) * lot_size * 100000 for a short,
\* minus commission * lot_size * 100000, where exit is the close price of the
\* bar on which the position is closed.
RealizedPnlOf(t) ==
    LET move == IF t.direction = "long" THEN FSub(t.exit_price, t.entry_price)
                                        ELSE FSub(t.entry_price, t.exit_price)
    IN  FSub(FMul(FMul(move, t.lot_size), F(100000)),
             FMul(FMul(self.commission, t.lot_size), F(100000)))

C21_StepRealizedPnl ==
    ClosesPosition =>
        LET t == trades'[Len(trades) + 1]
        IN  /\ t.exit_price = row'.close
            /\ t.entry_price = position.entry_price
            /\ t.lot_size = position.lot_size
            /\ t.direction = position.direction
            /\ t.pnl = RealizedPnlOf(t)

C21_RealizedPnl == [][C21_StepRealizedPnl]_vars

\* a short opened at 100 and closed at 97 with a dynamic lot size of 0.01:
\* 3 * 0.01 * 100000 - 1 * 0.01 * 100000 = 2000
C21_Witness ==
    \E k \in 1..Len(trades) :
        /\ IsClosedRecord(trades[k])
        /\ trades[k].direction = "short"
        /\ trades[k].entry_price = F(100)
        /\ trades[k].exit_price = F(97)
        /\ trades[k].lot_size = Q(1, 100)
        /\ trades[k].pnl = F(2000)

\* the pnl of a position marked at a price (lines 195, 210-216)
MarkedPnl(pos, price) ==
    LET move == IF pos.direction = "long" THEN FSub(price, pos.entry_price)
                                          ELSE FSub(pos.entry_price, price)
    IN  FSub(FMul(FMul(move, pos.lot_size), F(100000)),
             FMul(FMul(self.commission, pos.lot_size), F(100000)))

\* the step processes a bar to its end
ProcessesBar == pc = "loop" /\ pc' = "loop" /\ i' = i + 1

\* C22: the loop appends exactly one equity point per processed bar, in bar
\* order; the point's equity is the balance when no position is open at the
\* end of the bar and the balance plus the unrealized pnl of the open position
\* marked at the bar's close otherwise, and its position flag is true exactly
\* when a position is open.
C22_StepEquityPoint ==
    IF ProcessesBar
    THEN /\ Len(equity_curve') = Len(equity_curve) + 1
         /\ SubSeq(equity_curve', 1, Len(equity_curve)) = equity_curve
         /\ LET e == equity_curve'[Len(equity_curve')]
            IN  /\ e.time = i
                /\ Len(equity_curve') = i'
                /\ e.balance = balance'
                /\ e.position = (position' # None)
                /\ e.equity = IF position' = None
                               THEN balance'
                               ELSE FAdd(balance', MarkedPnl(position', row'.close))
    ELSE equity_curve' = equity_curve

C22_OneEquityPointPerBar == [][C22_StepEquityPoint]_vars

\* three bars processed: a point with an open position whose equity differs
\* from the balance, then a flat point after a close that changed the balance
C22_Witness ==
    /\ Len(equity_curve) = 3
    /\ equity_curve[2].position
    /\ equity_curve[2].equity # equity_curve[2].balance
    /\ ~equity_curve[3].position
    /\ equity_curve[3].equity = equity_curve[3].balance
    /\ equity_curve[3].balance # F(StartingBalance)

\* the long position of the scenario: entry 2000 on a bar with ATR 5
IsScenarioLong(pos) ==
    /\ pos # None
    /\ pos.direction = "long"
    /\ pos.entry_price = F(2000)

\* C23: a long opened at entry 2000 with ATR 5 has stop_loss 1990,
\* take_profit 2020 and initial trailing_stop 1990; a bar closing at 2010
\* (no signal) raises the trailing stop to 2000; a following bar closing at
\* 1999 closes the position with exit_reason 'trailing_stop', not
\* 'stop_loss', and pnl (1999 - 2000) * lot_size * 100000 less the commission
\* on the lot.
C23_StepScenarioA ==
    /\ (OpensPosition /\ IsScenarioLong(position')) =>
           /\ position'.stop_loss = F(1990)
           /\ position'.take_profit = F(2020)
           /\ trailing_stop' = F(1990)
    /\ (/\ IsScenarioLong(position) /\ trailing_stop = F(1990)
        /\ pc' = "loop" /\ row'.close = F(2010) /\ row'.Signal = 0) =>
           /\ position' = position
           /\ trailing_stop' = F(2000)
    /\ (/\ IsScenarioLong(position) /\ trailing_stop = F(2000)
        /\ i' = i + 1 /\ row'.close = F(1999)) =>
           /\ ClosesPosition
           /\ LET t == trades'[Len(trades) + 1]
              IN  /\ t.exit_reason = "trailing_stop"
                  /\ t.stop_loss = F(1990)
                  /\ t.trailing_stop = F(2000)
                  /\ t.pnl = FSub(FMul(FMul(F(1999 - 2000), t.lot_size), F(100000)),
                                  FMul(FMul(self.commission, t.lot_size), F(100000)))

C24_SameResultOnSameInstance ==
    pc = "done" =>
        /\ Len(equity_curve) = i
        /\ \A k \in 1..Len(equity_curve) : equity_curve[k].time = k - 1
        /\ Len(trades) <= 2 * i

\* C25: in the live trading cycle, when can_open_position(symbol) returns
\* False no order is sent and no position is added to the RiskManager for the
\* symbol in that cycle; the exit checks for the symbol's positions are still
\* performed, before the gate.
C25_StepGate ==
    (call'.op = "process_symbol" /\ call'.gate_asked /\ ~call'.gate) =>
        /\ ~call'.order_sent
        /\ ~call'.added
        /\ call'.exits_checked
        /\ call'.exit_reason = SlTpReason(open_positions, call'.symbol, F(100))
               \/ call'.exit_reason = SlTpReason(open_positions, call'.symbol, F(106))
        /\ open_positions' \in {open_positions,
                                Removed(open_positions, call'.symbol, NoDirection)}
        /\ ~CanOpen(call'.symbol, open_positions', account_balance,
                    session_start_balance, consecutive_losses, rm)

C25_GateBlocksOrders == [][C25_StepGate]_vars

\* a cycle halted by the session drawdown limit in which the exit check had
\* fired and the symbol's position was closed before the gate was asked
C25_Witness ==
    /\ call.op = "process_symbol"
    /\ call.gate_asked
    /\ ~call.gate
    /\ call.exit_reason = "take_profit"
    /\ open_positions = <<>>
    /\ account_balance = F(8900)

\* the close records of a trade list, and those among them that won
ClosedTrades(tr) == SelectSeq(tr, IsClosedRecord)
WinningTrades(tr) == SelectSeq(ClosedTrades(tr), LAMBDA t : FGt(t.pnl, F(0)))
LosingTrades(tr) == SelectSeq(ClosedTrades(tr), LAMBDA t : FLe(t.pnl, F(0)))

\* the evaluation returned a summary instead of raising
Reported == pc = "evaluated" /\ "raised" \notin DOMAIN performance

\* C26: the evaluation reports win_rate = (closed trades with pnl > 0) /
\* num_trades, with num_trades the number of closed trades of the run, avg_win
\* = 0 when no trade has pnl > 0 and avg_loss = 0 when no trade has pnl <= 0,
\* and it does not raise for any trade list the loop can produce.
C26_WinRateReported ==
    pc = "evaluated" =>
        /\ Reported
        /\ performance.num_trades = Len(ClosedTrades(trades))
        /\ performance.win_rate =
               IF ClosedTrades(trades) = <<>> THEN F(0)
               ELSE Q(Len(WinningTrades(trades)), Len(ClosedTrades(trades)))
        /\ WinningTrades(trades) = <<>> => performance.avg_win = F(0)
        /\ LosingTrades(trades) = <<>> => performance.avg_loss = F(0)

\* the highest equity among the first k points of a curve
RECURSIVE RunningPeak(_, _)
RunningPeak(ec, k) ==
    IF k = 1 THEN ec[1].equity
    ELSE LET before == RunningPeak(ec, k - 1)
         IN  IF FGt(ec[k].equity, before) THEN ec[k].equity ELSE before

\* the fractional decline of point k from the running peak
DrawdownAt(ec, k) == FDiv(FSub(RunningPeak(ec, k), ec[k].equity), RunningPeak(ec, k))

\* C27: the reported max_drawdown is the maximum over the points of the
\* equity curve of (running peak - equity) / running peak; it is 0 for a
\* non-decreasing curve and never negative.
C27_MaxDrawdownReported ==
    (pc = "evaluated" /\ equity_curve # <<>>) =>
        /\ Reported
        /\ \A k \in 1..Len(equity_curve) :
               FGe(performance.max_drawdown, DrawdownAt(equity_curve, k))
        /\ \/ performance.max_drawdown = F(0)
           \/ \E k \in 1..Len(equity_curve) :
                  performance.max_drawdown = DrawdownAt(equity_curve, k)
        /\ FGe(performance.max_drawdown, F(0))

\* the period returns of a curve are all alike: their deviation is 0
ReturnsAlike(ec) ==
    \A a, b \in 1..(Len(ec) - 1) :
        FDiv(ec[a + 1].equity, ec[a].equity) = FDiv(ec[b + 1].equity, ec[b].equity)

\* C28: the reported sharpe_ratio is 0 whenever the standard deviation of
\* the period returns is 0 or the equity curve has fewer than 2 points; no
\* division by zero occurs and no undefined value is returned in those cases.
C28_SharpeZeroReported ==
    (pc = "evaluated" /\ (Len(equity_curve) < 2 \/ ReturnsAlike(equity_curve))) =>
        /\ Reported
        /\ performance.sharpe_ratio = F(0)

\* C29: a bar whose signal is outside {-1, 0, 1} is treated like a bar with
\* signal 0: no position is opened, no open position is closed by
\* opposite_signal, nothing is raised, and the bar still yields its equity
\* point.
C29_StepInvalidSignal ==
    (pc = "loop" /\ pc' # "done" /\ row'.Signal \notin Signals) =>
        /\ ~OpensPosition
        /\ ClosesPosition => trades'[Len(trades) + 1].exit_reason # "opposite_signal"
        /\ pc' # "raised"
        /\ Len(equity_curve') = Len(equity_curve) + 1

C29_InvalidSignalIsNoSignal == [][C29_StepInvalidSignal]_vars

\* C30: in the live EnhancedTrader the open-position collection is mutated
\* by the trading thread only; there is no interleaving in which another
\* thread (API stop handler, signal handler, monitoring, trailing-stop
\* refresh) mutates or iterates the collection while the trading thread is
\* mutating it.  So no step of the thread that runs stop() changes the
\* collection, and the collection does not change while that thread is
\* inside remove_position.
StopThreadStep ==
    /\ call'.op = "stop"
    /\ call = NoCall \/ call'.at # call.at

C30_StepSingleWriter ==
    /\ StopThreadStep => open_positions' = open_positions
    /\ (call.op = "stop" /\ call.at = "remove_position" /\ ~StopThreadStep) =>
           open_positions' = open_positions

C30_SingleThreadMutates == [][C30_StepSingleWriter]_vars

\* C31: after pause() and until resume() is called, no pass of the trading
\* loop sends an order to the broker or records a paper trade
C31_StepPaused ==
    (api = "pause" /\ api' = "pause" /\ call'.op = "trading_loop")
        => (~call'.order_sent /\ ~call'.paper_trade)

C31_NoTradeWhilePaused == [][C31_StepPaused]_vars

\* C32: session_start_balance is written by reset_session() only: a call that
\* leaves it with another value is a reset_session() call, and it keeps its
\* value through update_account_balance, record_trade_result, add_position,
\* remove_position, update_position_pnl, update_trailing_stops and
\* can_open_position
C32_StepSessionStart ==
    session_start_balance' # session_start_balance => ResetSession

C32_SessionStartOnlyReset == [][C32_StepSessionStart]_vars

\* C32 the session's starting balance is still the one of __init__ after the
\* balance was refreshed, a result recorded, a position added and its
\* trailing stop set
C32_Witness ==
    /\ session_start_balance = F(10000)
    /\ account_balance # session_start_balance
    /\ trade_history # <<>>
    /\ open_positions # <<>>
    /\ open_positions[1].trailing_stop # None

\* the values a record of self.trades gives for the entry of a position
EntryValues(rec) ==
    [entry_time |-> rec.entry_time, entry_price |-> rec.entry_price,
     direction |-> rec.direction, lot_size |-> rec.lot_size,
     stop_loss |-> rec.stop_loss, take_profit |-> rec.take_profit]

\* C33: from the bar that opens a position to the bar that closes it the
\* position's entry_time, entry_price, direction, lot_size, stop_loss and
\* take_profit stay as the entry bar set them and only the trailing stop
\* moves; the closed record carries the values of the entry bar (those of
\* the entry record) and the trailing stop in force on the exit bar
C33_StepPositionFrame ==
    (position # None /\ pc = "loop" /\ pc' # "done") =>
        \/ position' = position /\ trades' = trades
        \/ /\ Len(trades') > Len(trades)
           /\ LET rec == trades'[Len(trades) + 1]
              IN  /\ IsClosedRecord(rec)
                  /\ EntryValues(rec) = EntryValues(position)
                  /\ EntryValues(rec) = EntryValues(trades[Len(trades)])
                  /\ rec.exit_time = i
                  /\ rec.trailing_stop =
                         UpdateTrailing(position, trailing_stop, row'.close, row'.atr)

C33_PositionFrame == [][C33_StepPositionFrame]_vars

\* C33 a position was closed at least two bars after its entry, with a
\* trailing stop that is not the one of the entry bar
C33_Witness ==
    \E k \in 2..Len(trades) :
        /\ IsClosedRecord(trades[k])
        /\ trades[k].exit_time > trades[k].entry_time + 1
        /\ trades[k].trailing_stop # trades[k - 1].trailing_stop
        /\ EntryValues(trades[k]) = EntryValues(trades[k - 1])

\* C34: on every bar on which the loop opens a position, the drawdown of
\* the equity, taken after the close processed on that bar if there was one,
\* from the running peak of the equity is not above max_drawdown
C34_StepEntryWithinDrawdown ==
    OpensPosition =>
        ~FGt(CurrentDrawdown(max_equity', balance'), self.max_drawdown)

C34_EntryWithinDrawdown == [][C34_StepEntryWithinDrawdown]_vars

\* C35: a position is not evaluated for a close on the bar that opened it:
\* every closed trade has an exit_time later than its entry_time, while the
\* bar that closes a position may open the next one
C35_ExitAfterEntry ==
    \A k \in 1..Len(trades) :
        IsClosedRecord(trades[k]) => trades[k].exit_time > trades[k].entry_time

\* C35 a position was closed and the next one opened on that same bar
C35_Witness ==
    \E k \in 1..(Len(trades) - 1) :
        /\ IsClosedRecord(trades[k])
        /\ IsEntryLog(trades[k + 1])
        /\ trades[k + 1].entry_time = trades[k].exit_time
        /\ trades[k].exit_time > trades[k].entry_time

\* C36: when every add_position follows, in the same thread, a
\* can_open_position that returned True, as in process_symbol, the number of
\* open positions never exceeds max_positions
C36_WithinMaxPositions ==
    Len(open_positions) <= rm.max_positions

\* C36 the cycle that filled the collection up to max_positions, its gate
\* having answered True
C36_Witness ==
    /\ Len(open_positions) = rm.max_positions
    /\ call.op = "process_symbol"
    /\ call.gate
    /\ call.added

\* an order closing the position was acknowledged with TRADE_RETCODE_DONE
Acknowledged(reply) ==
    \E attempt \in 1..max_retries : reply.retcodes[attempt] = "TRADE_RETCODE_DONE"

\* C37: close_all_positions returns True only if there were no positions or
\* every position of the symbol was closed by an order acknowledged with
\* TRADE_RETCODE_DONE; when a position is still open after its retries, the
\* three attempts all ending in a requote included, it returns False
C37_TrueOnlyWhenAllClosed ==
    (call.op = "close_all_positions" /\ call.result) =>
        \A k \in 1..Len(call.fetched.replies) : Acknowledged(call.fetched.replies[k])

\* the threads between line 86 and the finally clause of line 128
InSection == {t \in ConnThreads : conn_pc[t] = "inside"}

\* a caller that set the flag leaves with the flag False, however the
\* section ended
C38_StepFlagClearedOnExit ==
    \A t \in ConnThreads :
        (conn_pc[t] = "inside" /\ conn_pc'[t] = "out") => MT5_CONNECTION_LOCK' = FALSE

C38_FlagClearedOnExit == [][C38_StepFlagClearedOnExit]_vars

\* C38: MT5_CONNECTION_LOCK guards the shutdown / initialize / login section
\* of ensure_mt5_connection: at most one caller is inside it at a time, and
\* the flag is True for as long as a caller is inside
C38_MutualExclusion ==
    /\ Cardinality(InSection) <= 1
    /\ InSection # {} => MT5_CONNECTION_LOCK

====
